---------------------------- MODULE Spec2Model ----------------------------
(***************************************************************************)
(* A model of the loxrt tree-walking Lox interpreter: tokens, the AST, the *)
(* recursive-descent parser with panic-mode recovery, the resolver and its *)
(* depth side-table, the environment chain and the evaluator.              *)
(*                                                                         *)
(* Rust values are records with a tag field; Option<T> is a sequence of    *)
(* length 0 or 1; HashMap<String, T> is a function whose domain is a set   *)
(* of strings; Rc<RefCell<T>> is an index into a heap sequence.            *)
(***************************************************************************)
EXTENDS Integers, Sequences, FiniteSets, TLC

VARIABLES
    \* ---- Scanner
    scanner,        \* struct Scanner: source, tokens, start, current, line
    \* ---- the pipeline driver
    phase,          \* "parse" | "resolve" | "run" | "done"
    program,        \* Vec<Box<Stmt>> handed to the resolver and the interpreter
    pc,             \* index of the next top-level statement of the running loop
    outcome,        \* the Result the running phase ended with
    \* ---- Resolver
    scopes,         \* Resolver.scopes: Vec<HashMap<String, bool>>
    function_kind,  \* Resolver.function_kind
    class_kind,     \* Resolver.class_kind
    \* ---- Interpreter
    locals,         \* Interpreter.locals: HashMap<String, usize>
    frames,         \* heap of Environment cells: [parent, values]
    instances,      \* heap of LoxClassInstance cells: [base, fields]
    environment,    \* Interpreter.environment (index into frames)
    out,            \* lines written to stdout by println!
    trace,          \* history of the evaluator's observable steps
    \* ---- Parser
    tokens,         \* Parser.tokens
    current,        \* Parser.current (0-based, as in the source)
    stmts,          \* parse()'s local stmts
    errors,         \* parse()'s local errors
    source          \* the fragments the token vector was built from

vars == <<scanner, phase, program, pc, outcome, scopes, function_kind, class_kind,
          locals, frames, instances, environment, out, trace,
          tokens, current, stmts, errors, source>>

-----------------------------------------------------------------------------
(* Option<T> *)
None == <<>>
Some(x) == <<x>>
IsSome(o) == Len(o) > 0
Unwrap(o) == o[1]

\* let x = v; ... : v is bound once and the rest reads it as x
Let(v, K(_)) == K(v)

(* HashMap<String, T> *)
EmptyMap == <<>>
ContainsKey(m, k) == k \in DOMAIN m
Insert(m, k, v) == (k :> v) @@ m

-----------------------------------------------------------------------------
(* tokens.rs *)

Token(tok_typ, lexeme, line) ==
    [tok_typ |-> tok_typ, lexeme |-> lexeme, line |-> line]

\* A number is an exact fraction num/den in lowest terms, or one of the
\* IEEE-754 specials.
RECURSIVE Gcd(_, _)
Gcd(a, b) == IF b = 0 THEN a ELSE Gcd(b, a % b)

Abs(a) == IF a < 0 THEN -a ELSE a

Fraction(n, d) ==
    Let(Gcd(Abs(n), Abs(d)), LAMBDA g :
    Let(IF d < 0 THEN -1 ELSE 1, LAMBDA s :
        [fl |-> "fin", num |-> (s * n) \div g, den |-> (s * d) \div g]))

NaN == [fl |-> "nan", num |-> 0, den |-> 1]
Infinity(neg) == [fl |-> IF neg THEN "ninf" ELSE "inf", num |-> 0, den |-> 1]

\* Decimal text of a fraction, as '{}' and '{:?}' of f64 print it (the digits
\* after the point; MaxDigits of them at most).
MaxDigits == 16

RECURSIVE FractionDigits(_, _, _)
FractionDigits(r, d, k) ==
    IF r = 0 \/ k = 0 THEN ""
    ELSE ToString((r * 10) \div d) \o FractionDigits((r * 10) % d, d, k - 1)

NumberText(f, debug) ==
    CASE f.fl = "nan" -> "NaN"
      [] f.fl = "inf" -> "inf"
      [] f.fl = "ninf" -> "-inf"
      [] OTHER ->
            Let(Abs(f.num), LAMBDA a :
            Let(IF f.num < 0 THEN "-" ELSE "", LAMBDA sign :
            Let(ToString(a \div f.den), LAMBDA whole :
            Let(FractionDigits(a % f.den, f.den, MaxDigits), LAMBDA digits :
                IF digits = ""
                THEN sign \o whole \o (IF debug THEN ".0" ELSE "")
                ELSE sign \o whole \o "." \o digits))))

\* The payload of Identifier(String) and Str(String) is the token's lexeme
\* field 'str'; the payload of Number(f64) is 'number'.
Identifier(name, line) ==
    [tok_typ |-> "Identifier", lexeme |-> name, line |-> line]
\* the source text the scanner keeps as the lexeme of a keyword or a
\* punctuation token
Lexeme(tok_typ) ==
    CASE tok_typ = "LeftParen" -> "("    [] tok_typ = "RightParen" -> ")"
      [] tok_typ = "LeftBrace" -> "{"    [] tok_typ = "RightBrace" -> "}"
      [] tok_typ = "Comma" -> ","        [] tok_typ = "Dot" -> "."
      [] tok_typ = "Minus" -> "-"        [] tok_typ = "Plus" -> "+"
      [] tok_typ = "Semicolon" -> ";"    [] tok_typ = "Slash" -> "/"
      [] tok_typ = "Star" -> "*"         [] tok_typ = "Bang" -> "!"
      [] tok_typ = "BangEqual" -> "!="   [] tok_typ = "Equal" -> "="
      [] tok_typ = "EqualEqual" -> "=="  [] tok_typ = "Greater" -> ">"
      [] tok_typ = "GreaterEqual" -> ">="
      [] tok_typ = "Less" -> "<"         [] tok_typ = "LessEqual" -> "<="
      [] tok_typ = "And" -> "and"        [] tok_typ = "Class" -> "class"
      [] tok_typ = "Else" -> "else"      [] tok_typ = "False" -> "false"
      [] tok_typ = "Fun" -> "fun"        [] tok_typ = "For" -> "for"
      [] tok_typ = "If" -> "if"          [] tok_typ = "Nil" -> "nil"
      [] tok_typ = "Or" -> "or"          [] tok_typ = "Print" -> "print"
      [] tok_typ = "Return" -> "return"  [] tok_typ = "Super" -> "super"
      [] tok_typ = "This" -> "this"      [] tok_typ = "True" -> "true"
      [] tok_typ = "Var" -> "var"        [] tok_typ = "While" -> "while"
      [] OTHER -> ""
Keyword(tok_typ, line) ==
    [tok_typ |-> tok_typ, lexeme |-> Lexeme(tok_typ), line |-> line]
StrToken(s, line) ==
    [tok_typ |-> "Str", lexeme |-> s, line |-> line]
NumberToken(n, line) ==
    [tok_typ |-> "Number", lexeme |-> NumberText(Fraction(n, 1), FALSE),
     line |-> line, number |-> Fraction(n, 1)]

\* impl Display for Token: "{:?}" of tok_typ
TokenDisplay(tok) ==
    CASE tok.tok_typ = "Identifier" -> "Identifier(\"" \o tok.lexeme \o "\")"
      [] tok.tok_typ = "Str" -> "Str(\"" \o tok.lexeme \o "\")"
      [] tok.tok_typ = "Number" -> "Number(" \o NumberText(tok.number, TRUE) \o ")"
      [] OTHER -> tok.tok_typ


-----------------------------------------------------------------------------
(* ast.rs *)

\* enum Expr
Literal(value) == [node |-> "Literal", value |-> value]
Variable(name) == [node |-> "Variable", name |-> name]
Assignment(name, value) == [node |-> "Assignment", name |-> name, value |-> value]
Unary(operator, right) == [node |-> "Unary", operator |-> operator, right |-> right]
Binary(left, operator, right) ==
    [node |-> "Binary", left |-> left, operator |-> operator, right |-> right]
Logical(left, operator, right) ==
    [node |-> "Logical", left |-> left, operator |-> operator, right |-> right]
Grouping(expr) == [node |-> "Grouping", expr |-> expr]
Call(callee, paren, arguments) ==
    [node |-> "Call", callee |-> callee, paren |-> paren, arguments |-> arguments]
Get(object, name) == [node |-> "Get", object |-> object, name |-> name]
SetExpr(object, name, value) ==
    [node |-> "Set", object |-> object, name |-> name, value |-> value]
This(keyword) == [node |-> "This", keyword |-> keyword]
Super(keyword, method) == [node |-> "Super", keyword |-> keyword, method |-> method]

\* enum Stmt
ExprStmt(expr) == [node |-> "Expr", expr |-> expr]
PrintStmt(expr) == [node |-> "Print", expr |-> expr]
VarStmt(name, initializer) == [node |-> "Var", name |-> name, initializer |-> initializer]
BlockStmt(block_stmts) == [node |-> "Block", stmts |-> block_stmts]
IfStmt(condition, then_branch, else_branch) ==
    [node |-> "If", condition |-> condition, then_branch |-> then_branch,
     else_branch |-> else_branch]
WhileStmt(condition, loop_body) ==
    [node |-> "While", condition |-> condition, loop_body |-> loop_body]
FunctionStmt(name, params, body) ==
    [node |-> "Function", name |-> name, params |-> params, body |-> body]
ReturnStmt(keyword, value) == [node |-> "Return", keyword |-> keyword, retval |-> value]
ClassStmt(name, superclass, methods) ==
    [node |-> "Class", name |-> name, superclass |-> superclass, methods |-> methods]

\* The text of the This and Super variants, which the evaluator and the
\* resolver both use as the side-table key of such a site.
ThisSuperToString(expr) ==
    IF expr.node = "This"
    THEN TokenDisplay(expr.keyword)
    ELSE "(" \o TokenDisplay(expr.keyword) \o " " \o TokenDisplay(expr.method) \o ")"

\* Expr::to_string
RECURSIVE ExprToString(_)
RECURSIVE ArgsToString(_, _)
ArgsToString(s, arguments) ==
    IF arguments = <<>> THEN s
    ELSE ArgsToString(s \o ExprToString(Head(arguments)) \o " ", Tail(arguments))

ExprToString(expr) ==
    CASE expr.node \in {"Binary", "Logical"} ->
            "(" \o ExprToString(expr.left) \o " " \o TokenDisplay(expr.operator)
                \o " " \o ExprToString(expr.right) \o ")"
      [] expr.node = "Unary" ->
            "(" \o TokenDisplay(expr.operator) \o " " \o ExprToString(expr.right) \o ")"
      [] expr.node = "Grouping" -> "(group " \o ExprToString(expr.expr) \o ")"
      [] expr.node = "Literal" -> TokenDisplay(expr.value)
      [] expr.node = "Variable" -> TokenDisplay(expr.name)
      [] expr.node = "Assignment" ->
            TokenDisplay(expr.name) \o " = " \o ExprToString(expr.value) \o " "
      [] expr.node = "Call" ->
            ArgsToString(ExprToString(expr.callee) \o "( ", expr.arguments) \o ")"
      [] expr.node = "Get" -> "(get " \o ExprToString(expr.object) \o ")"
      [] expr.node = "Set" ->
            "(set " \o ExprToString(expr.object) \o " <- "
                \o ExprToString(expr.value) \o ")"
      [] OTHER -> ThisSuperToString(expr)

-----------------------------------------------------------------------------
(* interpreter.rs: enum Types *)

Nil == [kind |-> "Nil"]
Bool(b) == [kind |-> "Bool", b |-> b]
Number(f) == [kind |-> "Number", n |-> f]
String(s) == [kind |-> "String", s |-> s]
NativeFunc(native) == [kind |-> "NativeFunc", native |-> native]

\* LoxFunction::new
LoxFunction(name, params, body, closure, is_initializer) ==
    [kind |-> "Callable", name |-> name, params |-> params, body |-> body,
     closure |-> closure, is_initializer |-> is_initializer]

\* LoxClass::new; Types::Class holds the class by value
LoxClass(name, methods, superclass) ==
    [kind |-> "Class", cname |-> name, methods |-> methods, superclass |-> superclass]

\* Types::ClassInstance holds a shared pointer to the instance cell
ClassInstance(id) == [kind |-> "ClassInstance", id |-> id]

\* LoxClassInstance::new
LoxClassInstance(base) == [base |-> base, fields |-> EmptyMap]

\* Types::is_truty
IsTruty(v) ==
    CASE v.kind = "Nil" -> FALSE
      [] v.kind = "Bool" -> v.b
      [] OTHER -> TRUE

\* f64 == f64
NumEq(a, b) ==
    /\ a.fl # "nan"
    /\ b.fl # "nan"
    /\ a.fl = b.fl
    /\ a.num = b.num
    /\ a.den = b.den

\* impl PartialEq for Types
TypesEq(self, other) ==
    CASE self.kind = "Nil" /\ other.kind = "Nil" -> TRUE
      [] self.kind = "String" /\ other.kind = "String" -> self.s = other.s
      [] self.kind = "Number" /\ other.kind = "Number" -> NumEq(self.n, other.n)
      [] self.kind = "Bool" /\ other.kind = "Bool" -> self.b = other.b
      [] OTHER -> FALSE

\* LoxFunction::to_string, LoxClass::to_string, the native's to_string
CallableToString(c) ==
    CASE c.kind = "Callable" -> "<fn " \o c.name.lexeme \o ">"
      [] c.kind = "Class" -> "<class " \o c.cname \o ">"
      [] OTHER -> "<native function>"

\* impl Display for Types
TypesDisplay(v, inst) ==
    CASE v.kind = "Number" -> NumberText(v.n, FALSE)
      [] v.kind = "String" -> v.s
      [] v.kind = "Bool" -> IF v.b THEN "true" ELSE "false"
      [] v.kind = "ClassInstance" ->
            "instance of " \o CallableToString(inst[v.id].base)
      [] v.kind = "Nil" -> "Nil"
      [] OTHER -> CallableToString(v)

-----------------------------------------------------------------------------
(* f64 arithmetic on exact fractions and the IEEE-754 specials *)

Sign(a) ==
    CASE a.fl = "inf" -> 1
      [] a.fl = "ninf" -> -1
      [] OTHER -> IF a.num > 0 THEN 1 ELSE IF a.num < 0 THEN -1 ELSE 0

NumNeg(a) ==
    CASE a.fl = "nan" -> NaN
      [] a.fl = "inf" -> Infinity(TRUE)
      [] a.fl = "ninf" -> Infinity(FALSE)
      [] OTHER -> Fraction(-a.num, a.den)

NumAdd(a, b) ==
    CASE a.fl = "nan" \/ b.fl = "nan" -> NaN
      [] a.fl = "fin" /\ b.fl = "fin" ->
            Fraction(a.num * b.den + b.num * a.den, a.den * b.den)
      [] a.fl = "fin" -> b
      [] b.fl = "fin" -> a
      [] OTHER -> IF a.fl = b.fl THEN a ELSE NaN

NumSub(a, b) == NumAdd(a, NumNeg(b))

NumMul(a, b) ==
    CASE a.fl = "nan" \/ b.fl = "nan" -> NaN
      [] a.fl = "fin" /\ b.fl = "fin" -> Fraction(a.num * b.num, a.den * b.den)
      [] OTHER ->
            IF Sign(a) * Sign(b) = 0 THEN NaN ELSE Infinity(Sign(a) * Sign(b) < 0)

NumDiv(a, b) ==
    CASE a.fl = "nan" \/ b.fl = "nan" -> NaN
      [] a.fl = "fin" /\ b.fl = "fin" ->
            IF b.num = 0
            THEN IF a.num = 0 THEN NaN ELSE Infinity(a.num < 0)
            ELSE Fraction(a.num * b.den, a.den * b.num)
      [] a.fl = "fin" -> Fraction(0, 1)
      [] b.fl = "fin" -> Infinity((Sign(a) < 0) # (b.num < 0))
      [] OTHER -> NaN

NumLess(a, b) ==
    /\ a.fl # "nan"
    /\ b.fl # "nan"
    /\ CASE a.fl = "ninf" -> b.fl # "ninf"
         [] a.fl = "inf" -> FALSE
         [] OTHER -> \/ b.fl = "inf"
                     \/ b.fl = "fin" /\ a.num * b.den < b.num * a.den

-----------------------------------------------------------------------------
(* error.rs *)

\* Result<Types, LoxError>, with the interpreter state the call left behind.
\* 'raised' is the call depth at which a return signal was raised.
Ok(st, v) ==
    [tag |-> "Ok", st |-> st, v |-> v, line |-> 0, message |-> "", raised |-> 0]

\* LoxError::new_runtime
NewRuntime(st, line, message) ==
    [tag |-> "RuntimeError", st |-> st, v |-> Nil, line |-> line,
     message |-> message, raised |-> 0]

\* LoxError::new_return
NewReturn(st, v) ==
    [tag |-> "ReturnError", st |-> st, v |-> v, line |-> 0, message |-> "",
     raised |-> Len(st.calls)]

\* LoxError::new_resolution
NewResolution(line, message) ==
    [tag |-> "ResolutionError", line |-> line, message |-> message]

\* LoxError::new_parser
NewParser(line, message) == [line |-> line, message |-> message]

\* A Rust panic: unwrap() of None, unreachable!(), todo!(), a RefCell borrow
\* that conflicts with a live one, println! aside.
Panic(st, message) ==
    [tag |-> "Panic", st |-> st, v |-> Nil, line |-> 0, message |-> message,
     raised |-> 0]

\* The evaluation was cut off by a bound of the model (MaxIter, MaxCalls).
CutOff(st) ==
    [tag |-> "CutOff", st |-> st, v |-> Nil, line |-> 0, message |-> "",
     raised |-> 0]

\* LoxError::code
Code(tag) ==
    CASE tag = "ScannerError" -> 1
      [] tag = "ParserErrors" -> 2
      [] tag = "RuntimeError" -> 3
      [] tag = "ResolutionError" -> 4
      [] OTHER -> -1     \* panic!("Shouldn't try to exit on a return error")

\* LoxError::report: TRUE when it prints, FALSE when it panics
Report(tag) == tag # "ReturnError"

-----------------------------------------------------------------------------
(* scanner.rs: the source is a sequence of characters, each a string of     *)
(* length one; indices into it count from 0 as in the code                   *)

\* Scanner::new
ScannerNew(src) ==
    [source |-> src, tokens |-> <<>>, start |-> 0, current |-> 0, line |-> 1]

\* char::is_ascii_digit, and the value of a digit
DigitChars == <<"0", "1", "2", "3", "4", "5", "6", "7", "8", "9">>
IsAsciiDigit(c) == \E d \in 1..Len(DigitChars) : DigitChars[d] = c
DigitValue(c) == (CHOOSE d \in 1..Len(DigitChars) : DigitChars[d] = c) - 1

\* char::is_alphabetic and char::is_alphanumeric on ASCII characters
AsciiLetters ==
    {"a", "b", "c", "d", "e", "f", "g", "h", "i", "j", "k", "l", "m",
     "n", "o", "p", "q", "r", "s", "t", "u", "v", "w", "x", "y", "z",
     "A", "B", "C", "D", "E", "F", "G", "H", "I", "J", "K", "L", "M",
     "N", "O", "P", "Q", "R", "S", "T", "U", "V", "W", "X", "Y", "Z"}
IsAlphabetic(c) == c \in AsciiLetters
IsAlphanumeric(c) == IsAlphabetic(c) \/ IsAsciiDigit(c)

\* the character '\0' that peek answers beyond the end of the source
Nul == "NUL"

\* source.substring(from, to)
RECURSIVE Substring(_, _, _)
Substring(src, from, to) ==
    IF from >= to \/ from >= Len(src) THEN ""
    ELSE src[from + 1] \o Substring(src, from + 1, to)

\* Token::keywords: the token type of a reserved word
ReservedWords ==
    {"And", "Class", "Else", "False", "Fun", "For", "If", "Nil", "Or", "Print",
     "Return", "Super", "This", "True", "Var", "While"}
KeywordsGet(ident) ==
    IF \E k \in ReservedWords : Lexeme(k) = ident
    THEN Some(CHOOSE k \in ReservedWords : Lexeme(k) = ident)
    ELSE None

\* Result<(), LoxError> of the scanning functions, with the scanner they leave
ScanOk(sc) == [tag |-> "Ok", sc |-> sc, line |-> 0, message |-> ""]
\* LoxError::new(line, message, LoxErrorCode::ScannerError)
ScanErr(sc, line, message) ==
    [tag |-> "ScannerError", sc |-> sc, line |-> line, message |-> message]

\* Scanner::is_at_end
ScannerIsAtEnd(sc) == sc.current >= Len(sc.source)

\* Scanner::advance: the scanner after it; the character it returns is
\* Consumed(sc)
ScannerAdvance(sc) == [sc EXCEPT !.current = @ + 1]
Consumed(sc) == sc.source[sc.current + 1]

\* Scanner::add_token, with the token built from tok_typ and its payload
AddToken(sc, token) == [sc EXCEPT !.tokens = Append(@, token)]
\* the token of a type without payload: its lexeme is the scanned text
PlainToken(sc, tok_typ) ==
    Token(tok_typ, Substring(sc.source, sc.start, sc.current), sc.line)

\* Scanner::matches: whether the next character is the expected one
ScannerMatches(sc, expected) ==
    IF ScannerIsAtEnd(sc) THEN FALSE ELSE sc.source[sc.current + 1] = expected

\* Scanner::peek
ScannerPeek(sc, offset) ==
    IF sc.current + offset < Len(sc.source)
    THEN sc.source[sc.current + offset + 1]
    ELSE Nul

\* the while loop of string(): up to the closing quote or the end
RECURSIVE StringLoop(_)
StringLoop(sc) ==
    IF ScannerPeek(sc, 0) # "\"" /\ ~ScannerIsAtEnd(sc)
    THEN StringLoop(ScannerAdvance(
            IF ScannerPeek(sc, 0) = "\n" THEN [sc EXCEPT !.line = @ + 1] ELSE sc))
    ELSE sc

\* Scanner::string
ScanString(sc) ==
    Let(StringLoop(sc), LAMBDA body :
        IF ScannerIsAtEnd(body)
        THEN ScanErr(body, body.line, "Unterminated String")
        ELSE Let(ScannerAdvance(body), LAMBDA closed :
                 ScanOk(AddToken(closed,
                    StrToken(Substring(closed.source, closed.start + 1,
                                       closed.current - 1),
                             closed.line)))))

\* the while loops of number(): over the digits that follow
RECURSIVE DigitsLoop(_)
DigitsLoop(sc) ==
    IF IsAsciiDigit(ScannerPeek(sc, 0)) THEN DigitsLoop(ScannerAdvance(sc))
    ELSE sc

\* str::parse::<f64> of digits with an optional fraction: the exact value
RECURSIVE ParseF64(_, _, _, _)
ParseF64(src, from, to, acc) ==
    IF from >= to THEN Fraction(acc.num, acc.den)
    ELSE IF src[from + 1] = "."
    THEN ParseF64(src, from + 1, to, [acc EXCEPT !.point = TRUE])
    ELSE ParseF64(src, from + 1, to,
            [num |-> (acc.num * 10) + DigitValue(src[from + 1]),
             den |-> IF acc.point THEN acc.den * 10 ELSE acc.den,
             point |-> acc.point])

\* Scanner::number; parse::<f64> accepts every text the loops delimit
ScanNumber(sc) ==
    Let(DigitsLoop(sc), LAMBDA whole :
    Let(IF ScannerPeek(whole, 0) = "." /\ IsAsciiDigit(ScannerPeek(whole, 1))
        THEN DigitsLoop(ScannerAdvance(whole))
        ELSE whole, LAMBDA digits :
        ScanOk(AddToken(digits,
           [tok_typ |-> "Number",
            lexeme |-> Substring(digits.source, digits.start, digits.current),
            line |-> digits.line,
            number |-> ParseF64(digits.source, digits.start, digits.current,
                                [num |-> 0, den |-> 1, point |-> FALSE])]))))

\* the while loop of identifier()
RECURSIVE IdentifierLoop(_)
IdentifierLoop(sc) ==
    IF IsAlphanumeric(ScannerPeek(sc, 0)) \/ ScannerPeek(sc, 0) = "_"
    THEN IdentifierLoop(ScannerAdvance(sc))
    ELSE sc

\* Scanner::identifier
ScanIdentifier(sc) ==
    Let(IdentifierLoop(sc), LAMBDA word :
    Let(Substring(word.source, word.start, word.current), LAMBDA ident :
        IF IsSome(KeywordsGet(ident))
        THEN AddToken(word, PlainToken(word, Unwrap(KeywordsGet(ident))))
        ELSE AddToken(word, Identifier(ident, word.line))))

\* the token type of a character that is a token by itself
SingleChars ==
    [c \in {"(", ")", "{", "}", ",", ".", "-", "+", ";", "*"} |->
        CASE c = "(" -> "LeftParen"   [] c = ")" -> "RightParen"
          [] c = "{" -> "LeftBrace"   [] c = "}" -> "RightBrace"
          [] c = "," -> "Comma"       [] c = "." -> "Dot"
          [] c = "-" -> "Minus"       [] c = "+" -> "Plus"
          [] c = ";" -> "Semicolon"   [] OTHER -> "Star"]

\* the arms for '!', '=', '<' and '>': the token type with and without a
\* following '='
WithEqual ==
    [c \in {"!", "=", "<", ">"} |->
        CASE c = "!" -> <<"BangEqual", "Bang">>
          [] c = "=" -> <<"EqualEqual", "Equal">>
          [] c = "<" -> <<"LessEqual", "Less">>
          [] OTHER -> <<"GreaterEqual", "Greater">>]

\* the while loop of the comment arm: up to the end of the line
RECURSIVE CommentLoop(_)
CommentLoop(sc) ==
    IF ScannerPeek(sc, 0) # "\n" /\ ~ScannerIsAtEnd(sc)
    THEN CommentLoop(ScannerAdvance(sc))
    ELSE sc

\* Scanner::scan_token
ScanToken(sc0) ==
    Let(Consumed(sc0), LAMBDA c :
    Let(ScannerAdvance(sc0), LAMBDA sc :
        CASE c \in DOMAIN SingleChars ->
                ScanOk(AddToken(sc, PlainToken(sc, SingleChars[c])))
          [] c \in DOMAIN WithEqual ->
                IF ScannerMatches(sc, "=")
                THEN ScanOk(AddToken(ScannerAdvance(sc),
                        PlainToken(ScannerAdvance(sc), WithEqual[c][1])))
                ELSE ScanOk(AddToken(sc, PlainToken(sc, WithEqual[c][2])))
          [] c = "/" ->
                IF ScannerMatches(sc, "/")
                THEN ScanOk(CommentLoop(ScannerAdvance(sc)))
                ELSE ScanOk(AddToken(sc, PlainToken(sc, "Slash")))
          [] c \in {" ", "\t", "\r"} -> ScanOk(sc)
          [] c = "\n" -> ScanOk([sc EXCEPT !.line = @ + 1])
          [] c = "\"" -> ScanString(sc)
          [] OTHER ->
                IF IsAsciiDigit(c) THEN ScanNumber(sc)
                ELSE IF IsAlphabetic(c) THEN ScanOk(ScanIdentifier(sc))
                ELSE ScanErr(sc, sc.line, "Unexpected character '" \o c \o "'")))

-----------------------------------------------------------------------------
(* environment.rs: the cells live in a heap fr; parent 0 stands for None *)

\* Environment::new
GlobalEnv == 1
NewEnvironment == [parent |-> 0, values |-> EmptyMap]

\* Environment::new_child: the heap with the new cell appended
NewChild(fr, parent) == Append(fr, [parent |-> parent, values |-> EmptyMap])

\* Environment::define
Define(fr, id, name, value) ==
    [fr EXCEPT ![id].values = Insert(@, name, value)]

\* Environment::get; 'frame' is the cell that answered
RECURSIVE EnvGet(_, _, _)
EnvGet(fr, id, token) ==
    IF ContainsKey(fr[id].values, token.lexeme)
    THEN [ok |-> TRUE, v |-> fr[id].values[token.lexeme], frame |-> id,
          line |-> 0, message |-> ""]
    ELSE IF fr[id].parent # 0
    THEN EnvGet(fr, fr[id].parent, token)
    ELSE [ok |-> FALSE, v |-> Nil, frame |-> 0, line |-> token.line,
          message |-> "Failed to get undefined variable '" \o token.lexeme \o "'."]

\* Environment::get_at
RECURSIVE EnvGetAt(_, _, _, _)
EnvGetAt(fr, id, token, depth) ==
    IF depth = 0
    THEN EnvGet(fr, id, token)
    ELSE IF fr[id].parent # 0
    THEN EnvGetAt(fr, fr[id].parent, token, depth - 1)
    ELSE [ok |-> FALSE, v |-> Nil, frame |-> 0, line |-> token.line,
          message |-> "Bad depth. Looking for depth " \o ToString(depth)
                        \o ", but no parent found."]

\* Environment::set; 'fr' is the heap after the call
RECURSIVE EnvSet(_, _, _, _)

\* a set that defines the name in the outermost frame when no frame binds it
EnvSetDefines(fr, id, token, value) ==
    IF ContainsKey(fr[id].values, token.lexeme)
    THEN [ok |-> TRUE, fr |-> [fr EXCEPT ![id].values[token.lexeme] = value],
          frame |-> id, line |-> 0, message |-> ""]
    ELSE IF fr[id].parent # 0
    THEN EnvSet(fr, fr[id].parent, token, value)
    ELSE [ok |-> TRUE, fr |-> Define(fr, id, token.lexeme, value),
          frame |-> id, line |-> 0, message |-> ""]

EnvSet(fr, id, token, value) ==
    IF ContainsKey(fr[id].values, token.lexeme)
    THEN [ok |-> TRUE, fr |-> [fr EXCEPT ![id].values[token.lexeme] = value],
          frame |-> id, line |-> 0, message |-> ""]
    ELSE IF fr[id].parent # 0
    THEN EnvSet(fr, fr[id].parent, token, value)
    ELSE [ok |-> FALSE, fr |-> fr, frame |-> 0, line |-> token.line,
          message |-> "Failed to set undefined variable: '" \o token.lexeme \o "'."]

\* Environment::set_at
RECURSIVE EnvSetAt(_, _, _, _, _)
EnvSetAt(fr, id, token, value, depth) ==
    IF depth = 0
    THEN EnvSet(fr, id, token, value)
    ELSE IF fr[id].parent # 0
    THEN EnvSetAt(fr, fr[id].parent, token, value, depth - 1)
    ELSE [ok |-> FALSE, fr |-> fr, frame |-> 0, line |-> token.line,
          message |-> "Bad depth. Looking for depth " \o ToString(depth)
                        \o ", but no parent found."]

-----------------------------------------------------------------------------
(* interpreter.rs: the evaluator.  An operator takes the interpreter state  *)
(* st = [locals, frames, instances, environment, out, trace, calls,         *)
(* borrowed] and yields a Result that carries the state it leaves behind.   *)
(* calls is the stack of active LoxFunction::call invocations; borrowed is  *)
(* the set of instance cells with a live RefCell::borrow_mut.               *)

MaxIter == 4      \* iterations of one while statement the model follows
MaxCalls == 6     \* nested LoxFunction::call invocations the model follows
ClockMillis == 1500   \* the reading SystemTime::now() gives clock()

Log(st, e) == [st EXCEPT !.trace = Append(@, e)]

ThisToken == [tok_typ |-> "Identifier", lexeme |-> "this", line |-> 0]
SuperToken == [tok_typ |-> "Identifier", lexeme |-> "super", line |-> 0]

\* RefCell<LoxClassInstance>::borrow / borrow_mut on a cell that is mutably
\* borrowed panics
Conflicts(st, v) == v.kind = "ClassInstance" /\ v.id \in st.borrowed

\* format!("... {v}") of one or two values, then LoxError::new_runtime
RuntimeWith(st, shown, line, message) ==
    IF \E i \in 1..Len(shown) : Conflicts(st, shown[i])
    THEN Panic(st, "already mutably borrowed")
    ELSE NewRuntime(st, line, message)

\* LoxClass::find_method
RECURSIVE FindMethod(_, _)
FindMethod(class, method) ==
    IF ContainsKey(class.methods, method)
    THEN Some(class.methods[method])
    ELSE IF IsSome(class.superclass)
    THEN FindMethod(Unwrap(class.superclass), method)
    ELSE None

\* LoxFunction::bind: the state with the new frame, and the bound function
Bind(f, st, instance) ==
    Let(NewChild(st.frames, f.closure), LAMBDA fr1 :
    Let(Len(fr1), LAMBDA env :
        [st |-> [st EXCEPT !.frames = Define(fr1, env, "this", instance)],
         v |-> LoxFunction(f.name, f.params, f.body, env, f.is_initializer)]))

\* LoxClassInstance::get without its history entry
GetPropertyRaw(st, id, field) ==
    IF id \in st.borrowed
    THEN Panic(st, "already mutably borrowed")
    ELSE IF ContainsKey(st.instances[id].fields, field.lexeme)
    THEN Ok(st, st.instances[id].fields[field.lexeme])
    ELSE IF ContainsKey(st.instances[id].base.methods, field.lexeme)
    THEN Let(Bind(st.instances[id].base.methods[field.lexeme], st,
                  ClassInstance(id)), LAMBDA b :
             Ok(b.st, b.v))
    ELSE NewRuntime(st, field.line,
            "Instance of " \o CallableToString(st.instances[id].base)
                \o " doesn't have a field '" \o field.lexeme \o "'")

\* LoxClassInstance::get
GetProperty(st, id, field) ==
    Let(GetPropertyRaw(st, id, field), LAMBDA r :
        [r EXCEPT !.st = Log(@,
            [ev |-> "Get", id |-> id, name |-> field.lexeme,
             is_field |-> ContainsKey(st.instances[id].fields, field.lexeme),
             on_chain |-> IsSome(FindMethod(st.instances[id].base, field.lexeme)),
             tag |-> r.tag, v |-> r.v])])

\* a set_property that writes the field into every instance of the class
SetPropertyOfClass(st, id, field, value) ==
    [st EXCEPT !.instances =
        [k \in 1..Len(@) |->
            IF @[k].base = @[id].base
            THEN [@[k] EXCEPT !.fields = Insert(@, field.lexeme, value)]
            ELSE @[k]]]

\* LoxClassInstance::set_property
SetProperty(st, id, field, value) ==
    [st EXCEPT !.instances[id].fields = Insert(@, field.lexeme, value)]

\* Types::number on both operands of an arithmetic or comparison operator
BothNumbers(st, left, right, operator, result) ==
    IF left.kind # "Number"
    THEN RuntimeWith(st, <<left>>, operator.line,
            "Expected Number but found " \o TypesDisplay(left, st.instances))
    ELSE IF right.kind # "Number"
    THEN RuntimeWith(st, <<right>>, operator.line,
            "Expected Number but found " \o TypesDisplay(right, st.instances))
    ELSE Ok(st, result)

\* Interpreter::evaluate, Expr::Binary once both operands are values
BinaryOp(st, left, operator, right) ==
    Let(operator.tok_typ, LAMBDA t :
    Let(IF left.kind = "Number" THEN left.n ELSE NaN, LAMBDA ln :
    Let(IF right.kind = "Number" THEN right.n ELSE NaN, LAMBDA rn :
        CASE t = "Minus" -> BothNumbers(st, left, right, operator, Number(NumSub(ln, rn)))
          [] t = "Plus" ->
                IF left.kind = "Number" /\ right.kind = "Number"
                THEN Ok(st, Number(NumAdd(ln, rn)))
                ELSE IF left.kind = "String" /\ right.kind = "String"
                THEN Ok(st, String(left.s \o right.s))
                ELSE RuntimeWith(st, <<left, right>>, operator.line,
                        "Invalid operands for operator '+'. Cannot add '"
                            \o TypesDisplay(left, st.instances) \o "' with '"
                            \o TypesDisplay(right, st.instances) \o "'")
          [] t = "Slash" -> BothNumbers(st, left, right, operator, Number(NumDiv(ln, rn)))
          [] t = "Star" -> BothNumbers(st, left, right, operator, Number(NumMul(ln, rn)))
          [] t = "Greater" -> BothNumbers(st, left, right, operator, Bool(NumLess(rn, ln)))
          [] t = "GreaterEqual" ->
                BothNumbers(st, left, right, operator,
                            Bool(NumLess(rn, ln) \/ NumEq(ln, rn)))
          [] t = "Less" -> BothNumbers(st, left, right, operator, Bool(NumLess(ln, rn)))
          [] t = "LessEqual" ->
                BothNumbers(st, left, right, operator,
                            Bool(NumLess(ln, rn) \/ NumEq(ln, rn)))
          [] t = "EqualEqual" ->
                Ok(Log(st, [ev |-> "Eq", left |-> left, right |-> right,
                            negated |-> FALSE, result |-> TypesEq(right, left)]),
                   Bool(TypesEq(right, left)))
          [] t = "BangEqual" ->
                Ok(Log(st, [ev |-> "Eq", left |-> left, right |-> right,
                            negated |-> TRUE, result |-> ~TypesEq(right, left)]),
                   Bool(~TypesEq(right, left)))
          [] OTHER -> NewRuntime(st, operator.line,
                        "Bad binary operator: " \o TokenDisplay(operator)))))

\* Interpreter::lookup_variable; the history entry names the site, the frame
\* that answered and the active call
LookupVariable(token, expr, st) ==
    Let(ExprToString(expr), LAMBDA key :
    Let(IF ContainsKey(st.locals, key)
        THEN EnvGetAt(st.frames, st.environment, token, st.locals[key])
        ELSE EnvGet(st.frames, GlobalEnv, token), LAMBDA g :
    Let(Log(st, [ev |-> "Read", name |-> token.lexeme, line |-> token.line,
                 frame |-> g.frame, v |-> g.v, calls |-> st.calls,
                 from |-> st.environment]), LAMBDA st1 :
        IF g.ok THEN Ok(st1, g.v) ELSE NewRuntime(st1, g.line, g.message))))

RECURSIVE Evaluate(_, _)
RECURSIVE EvalArgs(_, _, _)
RECURSIVE Execute(_, _)
RECURSIVE ExecuteStmt(_, _)
RECURSIVE ExecuteBlock(_, _, _)
RECURSIVE RunStmts(_, _, _)
RECURSIVE WhileLoop(_, _, _)
RECURSIVE CallFunction(_, _, _)
RECURSIVE CallClass(_, _, _)

\* the arguments loop of Expr::Call
EvalArgs(arguments, st, args) ==
    IF arguments = <<>>
    THEN [tag |-> "Ok", st |-> st, args |-> args]
    ELSE Let(Evaluate(Head(arguments), st), LAMBDA r :
             IF r.tag # "Ok" THEN r
             ELSE EvalArgs(Tail(arguments), r.st, Append(args, r.v)))

\* the define loop of LoxFunction::call
RECURSIVE DefineArgs(_, _, _, _)
DefineArgs(fr, env, params, arguments) ==
    IF arguments = <<>> THEN fr
    ELSE DefineArgs(Define(fr, env, Head(params).lexeme, Head(arguments)),
                    env, Tail(params), Tail(arguments))

\* the initializer's result: self.closure.borrow().get_at("this", 0)?
ClosureThis(f, st) ==
    Let(EnvGetAt(st.frames, f.closure, ThisToken, 0), LAMBDA g :
        IF g.ok THEN Ok(st, g.v) ELSE NewRuntime(st, g.line, g.message))

\* the match on execute_block's result in LoxFunction::call
\* a call that forgets the initializer's early return
CallResultNoThis(f, r) ==
    CASE r.tag = "ReturnError" -> Ok(r.st, r.v)
      [] r.tag = "Ok" ->
            IF f.is_initializer THEN ClosureThis(f, r.st) ELSE Ok(r.st, Nil)
      [] OTHER -> r

\* a call whose Err(e) => Err(e) arm comes first
CallResultLeak(f, r) ==
    CASE r.tag = "Ok" ->
            IF f.is_initializer THEN ClosureThis(f, r.st) ELSE Ok(r.st, Nil)
      [] OTHER -> r

\* LoxFunction::call, the match on the result of execute_block
CallResult(f, r) ==
    CASE r.tag = "ReturnError" ->
            IF f.is_initializer /\ TypesEq(r.v, Nil)
            THEN ClosureThis(f, r.st)
            ELSE Ok(r.st, r.v)
      [] r.tag = "Ok" ->
            IF f.is_initializer THEN ClosureThis(f, r.st) ELSE Ok(r.st, Nil)
      [] OTHER -> r

\* the history entry of a finished call: the frame the body ran in, the
\* frames before the call, after the arguments were bound and on return,
\* and the invocations that were active around it
CallDone(f, st, st1, arguments, r, c) ==
    Let(IF ContainsKey(st.frames[f.closure].values, "this")
        THEN st.frames[f.closure].values["this"] ELSE Nil, LAMBDA bound :
        Log(c.st, [ev |-> "Call", name |-> f.name.lexeme,
                   is_initializer |-> f.is_initializer, this |-> bound,
                   body_tag |-> r.tag, raised |-> r.raised,
                   depth |-> Len(st1.calls), tag |-> c.tag, v |-> c.v,
                   env |-> Len(st1.frames), closure |-> f.closure,
                   caller |-> st.environment, params |-> f.params,
                   arguments |-> arguments, active |-> st.calls,
                   frames_before |-> st.frames, frames_bound |-> st1.frames,
                   frames_after |-> c.st.frames]))

\* a call whose frame is a child of the caller's current frame
CallFunctionDynamic(f, st, arguments) ==
    IF Len(st.calls) >= MaxCalls THEN CutOff(st)
    ELSE
    Let(NewChild(st.frames, st.environment), LAMBDA fr1 :
    Let(Len(fr1), LAMBDA env :
    Let([st EXCEPT
           !.frames = DefineArgs(fr1, env, f.params, arguments),
           !.calls = Append(@, [closure |-> f.closure, env |-> env,
                                name |-> f.name.lexeme])], LAMBDA st1 :
    Let(ExecuteBlock(f.body, env, st1), LAMBDA r :
    Let(CallResult(f, r), LAMBDA c :
    Let(CallDone(f, st, st1, arguments, r, c), LAMBDA st2 :
        [c EXCEPT !.st = [st2 EXCEPT !.calls = st.calls]]))))))

\* impl Callable for LoxFunction: call
CallFunction(f, st, arguments) ==
    IF Len(st.calls) >= MaxCalls THEN CutOff(st)
    ELSE
    Let(NewChild(st.frames, f.closure), LAMBDA fr1 :
    Let(Len(fr1), LAMBDA env :
    Let([st EXCEPT
           !.frames = DefineArgs(fr1, env, f.params, arguments),
           !.calls = Append(@, [closure |-> f.closure, env |-> env,
                                name |-> f.name.lexeme])], LAMBDA st1 :
    Let(ExecuteBlock(f.body, env, st1), LAMBDA r :
    Let(CallResult(f, r), LAMBDA c :
    Let(CallDone(f, st, st1, arguments, r, c), LAMBDA st2 :
        [c EXCEPT !.st = [st2 EXCEPT !.calls = st.calls]]))))))

\* LoxClass::new_instance, impl Callable for LoxClass: call
CallClass(class, st, arguments) ==
    Let(Len(st.instances) + 1, LAMBDA id :
    Let([st EXCEPT !.instances = Append(@, LoxClassInstance(class))], LAMBDA st1 :
    Let(FindMethod(class, "init"), LAMBDA init :
    Let(IF IsSome(init)
        THEN Let(Bind(Unwrap(init), st1, ClassInstance(id)), LAMBDA b :
                 CallFunction(b.v, b.st, arguments))
        ELSE Ok(st1, ClassInstance(id)), LAMBDA r :
        [r EXCEPT !.st = Log(@, [ev |-> "New", id |-> id, tag |-> r.tag, v |-> r.v])]))))

\* impl Callable: airity
Airity(callee) ==
    CASE callee.kind = "Callable" -> Len(callee.params)
      [] callee.kind = "Class" ->
            IF IsSome(FindMethod(callee, "init"))
            THEN Len(Unwrap(FindMethod(callee, "init")).params)
            ELSE 0
      [] OTHER -> 0

\* fn clock
Clock(st) == Ok(st, Number(Fraction(ClockMillis, 1000)))

\* Interpreter::evaluate, Expr::Call once callee and arguments are values
CallValue(callee, paren, st, args) ==
    IF callee.kind \notin {"Callable", "Class", "NativeFunc"}
    THEN RuntimeWith(st, <<callee>>, paren.line,
            "Expected Callable but found " \o TypesDisplay(callee, st.instances))
    ELSE IF Airity(callee) # Len(args)
    THEN NewRuntime(st, paren.line,
            "Expected " \o ToString(Airity(callee)) \o " arguments, but got "
                \o ToString(Len(args)))
    ELSE CASE callee.kind = "Callable" -> CallFunction(callee, st, args)
           [] callee.kind = "Class" -> CallClass(callee, st, args)
           [] OTHER -> Clock(st)

\* the call of Expr::Call with its history entry: the callee and the argument
\* values, the state the check found (at: the length of the history then) and
\* the state and result the call left
CallSite(paren, callee, st, args) ==
    Let(CallValue(callee, paren, st, args), LAMBDA r :
        [r EXCEPT !.st = Log(@,
            [ev |-> "CallSite", line |-> paren.line, callee |-> callee,
             args |-> args, at |-> Len(st.trace), borrowed |-> st.borrowed,
             instances |-> st.instances, frames |-> st.frames, out |-> st.out,
             tag |-> r.tag, err_line |-> r.line, message |-> r.message,
             instances_after |-> r.st.instances, frames_after |-> r.st.frames,
             out_after |-> r.st.out])])

\* Interpreter::evaluate, Expr::Assignment once the value is known
Assign(expression, st, result_val) ==
    Let(ExprToString(expression.value), LAMBDA key :
    Let(IF ContainsKey(st.locals, key)
        THEN EnvSetAt(st.frames, st.environment, expression.name,
                      result_val, st.locals[key])
        ELSE EnvSet(st.frames, GlobalEnv, expression.name, result_val), LAMBDA w :
    Let(Log([st EXCEPT !.frames = w.fr],
            [ev |-> "Write", name |-> expression.name.lexeme,
             line |-> expression.name.line, frame |-> w.frame,
             v |-> result_val, calls |-> st.calls, from |-> st.environment]), LAMBDA st1 :
        IF w.ok THEN Ok(st1, result_val) ELSE NewRuntime(st1, w.line, w.message))))

\* Interpreter::evaluate, Expr::Super
EvalSuperRaw(expression, st) ==
    Let(ExprToString(expression), LAMBDA key :
        IF ~ContainsKey(st.locals, key)
        THEN Panic(st, "called Option::unwrap() on a None value")
        ELSE
        Let(st.locals[key], LAMBDA dist :
        Let(EnvGetAt(st.frames, st.environment, SuperToken, dist), LAMBDA sc :
            IF ~sc.ok THEN NewRuntime(st, sc.line, sc.message)
            ELSE IF sc.v.kind # "Class" THEN Panic(st, "unreachable")
            ELSE IF dist = 0 THEN Panic(st, "attempt to subtract with overflow")
            ELSE
            Let(EnvGetAt(st.frames, st.environment, ThisToken, dist - 1), LAMBDA this :
            Let(FindMethod(sc.v, expression.method.lexeme), LAMBDA m :
                IF ~this.ok THEN NewRuntime(st, this.line, this.message)
                ELSE IF IsSome(m)
                THEN Let(Bind(Unwrap(m), st, this.v), LAMBDA b :    Ok(b.st, b.v))
                ELSE NewRuntime(st, expression.method.line,
                        "Undefined property '" \o expression.method.lexeme \o "'."))))))

\* the receiver of the innermost active call: Nil outside a method
CurrentThis(st) ==
    IF st.calls = <<>> THEN Nil
    ELSE Let(st.calls[Len(st.calls)].closure, LAMBDA closure :
             IF ContainsKey(st.frames[closure].values, "this")
             THEN st.frames[closure].values["this"] ELSE Nil)

\* Interpreter::evaluate, Expr::Super with its history entry: the receiver of
\* the running method, the result, and the receiver the result is bound to
EvalSuper(expression, st) ==
    Let(EvalSuperRaw(expression, st), LAMBDA r :
        [r EXCEPT !.st = Log(@,
            [ev |-> "Super", method |-> expression.method.lexeme,
             line |-> expression.keyword.line, this |-> CurrentThis(st),
             tag |-> r.tag, v |-> r.v, err_line |-> r.line,
             bound |-> IF r.tag = "Ok" /\ r.v.kind = "Callable"
                       THEN r.st.frames[r.v.closure].values["this"] ELSE Nil])])

\* the history entry of a property assignment: the result v of evaluating the
\* value, and the field map the assignment left
SetDone(st, id, name, v) ==
    Log(st, [ev |-> "Set", id |-> id, name |-> name.lexeme, line |-> name.line,
             tag |-> v.tag, message |-> v.message, v |-> v.v,
             fields |-> st.instances[id].fields,
             before |-> v.st.instances, after |-> st.instances,
             frames_before |-> v.st.frames, frames_after |-> st.frames])

\* Interpreter::evaluate, Expr::Set
EvalSet(expression, st) ==
    Let(Evaluate(expression.object, st), LAMBDA o :
        IF o.tag # "Ok" THEN o
        ELSE IF o.v.kind # "ClassInstance" THEN Panic(o.st, "not yet implemented")
        ELSE IF o.v.id \in o.st.borrowed
        THEN Panic(o.st, "already borrowed")
        ELSE
        \* instance.borrow_mut() is live while the value is evaluated
        Let(Evaluate(expression.value,
                     [o.st EXCEPT !.borrowed = @ \cup {o.v.id}]), LAMBDA v :
            IF v.tag # "Ok"
            THEN [v EXCEPT !.st = SetDone([@ EXCEPT !.borrowed = o.st.borrowed],
                                          o.v.id, expression.name, v)]
            ELSE Ok(SetDone(SetProperty([v.st EXCEPT !.borrowed = o.st.borrowed],
                                        o.v.id, expression.name, v.v),
                            o.v.id, expression.name, v),
                    Nil)))

\* Interpreter::evaluate ("evaulate" in the source)
Evaluate(expression, st) ==
    CASE expression.node = "Binary" ->
            Let(Evaluate(expression.left, st), LAMBDA left :
                IF left.tag # "Ok" THEN left
                ELSE Let(Evaluate(expression.right, left.st), LAMBDA right :
                         IF right.tag # "Ok" THEN right
                         ELSE BinaryOp(right.st, left.v, expression.operator, right.v)))
      [] expression.node = "Unary" ->
            Let(Evaluate(expression.right, st), LAMBDA right :
                IF right.tag # "Ok" THEN right
                ELSE CASE expression.operator.tok_typ = "Minus" ->
                            IF right.v.kind = "Number"
                            THEN Ok(right.st, Number(NumNeg(right.v.n)))
                            ELSE RuntimeWith(right.st, <<right.v>>,
                                    expression.operator.line,
                                    "Cannot perform Unary operator '-' on "
                                        \o TypesDisplay(right.v, right.st.instances))
                       [] expression.operator.tok_typ = "Bang" ->
                            Ok(right.st, Bool(~IsTruty(right.v)))
                       [] OTHER ->
                            NewRuntime(right.st, expression.operator.line,
                                "Bad Unary operator " \o expression.operator.tok_typ))
      [] expression.node = "Grouping" -> Evaluate(expression.expr, st)
      [] expression.node = "Literal" ->
            CASE expression.value.tok_typ = "Str" -> Ok(st, String(expression.value.lexeme))
              [] expression.value.tok_typ = "Number" -> Ok(st, Number(expression.value.number))
              [] expression.value.tok_typ = "False" -> Ok(st, Bool(FALSE))
              [] expression.value.tok_typ = "True" -> Ok(st, Bool(TRUE))
              [] expression.value.tok_typ = "Nil" -> Ok(st, Nil)
              [] OTHER -> NewRuntime(st, expression.value.line,
                            "Bad Token Literal: " \o TokenDisplay(expression.value))
      [] expression.node = "Variable" -> LookupVariable(expression.name, expression, st)
      [] expression.node = "Assignment" ->
            Let(Evaluate(expression.value, st), LAMBDA result_val :
                IF result_val.tag # "Ok" THEN result_val
                ELSE Assign(expression, result_val.st, result_val.v))
      [] expression.node = "Logical" ->
            Let(Evaluate(expression.left, st), LAMBDA left :
                IF left.tag # "Ok" THEN left
                ELSE CASE expression.operator.tok_typ = "Or" ->
                            IF IsTruty(left.v) THEN left
                            ELSE Evaluate(expression.right, left.st)
                       [] expression.operator.tok_typ = "And" ->
                            IF ~IsTruty(left.v) THEN left
                            ELSE Evaluate(expression.right, left.st)
                       [] OTHER ->
                            NewRuntime(left.st, expression.operator.line,
                                "Bad operator: " \o TokenDisplay(expression.operator)))
      [] expression.node = "Call" ->
            Let(Evaluate(expression.callee, st), LAMBDA callee :
                IF callee.tag # "Ok" THEN callee
                ELSE Let(EvalArgs(expression.arguments, callee.st, <<>>), LAMBDA args :
                         IF args.tag # "Ok" THEN args
                         ELSE CallSite(expression.paren, callee.v, args.st, args.args)))
      [] expression.node = "Get" ->
            Let(Evaluate(expression.object, st), LAMBDA obj :
                IF obj.tag # "Ok" THEN obj
                ELSE IF obj.v.kind = "ClassInstance"
                THEN GetProperty(obj.st, obj.v.id, expression.name)
                ELSE NewRuntime(obj.st, expression.name.line,
                        "Only instance have properties."))
      [] expression.node = "Set" -> EvalSet(expression, st)
      [] expression.node = "This" ->
            LookupVariable(expression.keyword, expression, st)
      [] OTHER -> EvalSuper(expression, st)

\* the statement loop shared by Stmt::Block and execute_block: the first
\* Err ends it
RunStmts(block, i, st) ==
    IF i > Len(block) THEN Ok(st, Nil)
    ELSE Let(Execute(block[i], st), LAMBDA r :
             IF r.tag # "Ok" THEN r ELSE RunStmts(block, i + 1, r.st))

\* execute_block without the restore of its Err arm
ExecuteBlockKeep(block, env, st) ==
    Let(st.environment, LAMBDA prev :
    Let(RunStmts(block, 1, [st EXCEPT !.environment = env]), LAMBDA r :
        IF r.tag = "Ok" THEN [r EXCEPT !.st.environment = prev] ELSE r))

\* Interpreter::execute_block
ExecuteBlock(block, env, st) ==
    Let(st.environment, LAMBDA prev :
    Let(RunStmts(block, 1, [st EXCEPT !.environment = env]), LAMBDA r :
        [r EXCEPT !.st.environment = prev]))

\* Interpreter::execute, Stmt::Block
ExecuteBlockStmt(stmt, st) ==
    Let(st.environment, LAMBDA prev :
    Let(NewChild(st.frames, prev), LAMBDA fr1 :
    Let(RunStmts(stmt.stmts, 1,
                 [st EXCEPT !.frames = fr1, !.environment = Len(fr1)]), LAMBDA r :
        [r EXCEPT !.st.environment = prev])))

\* Interpreter::execute, Stmt::While
WhileLoop(stmt, st, n) ==
    Let(Evaluate(stmt.condition, st), LAMBDA c :
        IF c.tag # "Ok" THEN c
        ELSE IF ~IsTruty(c.v) THEN Ok(c.st, Nil)
        ELSE IF n >= MaxIter THEN CutOff(c.st)
        ELSE Let(Execute(stmt.loop_body, c.st), LAMBDA b :
                 IF b.tag # "Ok" THEN b ELSE WhileLoop(stmt, b.st, n + 1)))

\* the method-table loop of Stmt::Class
RECURSIVE BuildMethods(_, _, _)
BuildMethods(methods, env, mtds) ==
    IF methods = <<>> THEN mtds
    ELSE Let(Head(methods), LAMBDA m :
             BuildMethods(Tail(methods), env,
                Insert(mtds, m.name.lexeme,
                       LoxFunction(m.name, m.params, m.body, env,
                                   m.name.lexeme = "init"))))

\* Interpreter::execute, Stmt::Class once the superclass is known and its
\* frame pushed
FinishClass(stmt, st, superclass) ==
    IF \E i \in 1..Len(stmt.methods) : stmt.methods[i].node # "Function"
    THEN Panic(st, "unreachable")
    ELSE
    Let(BuildMethods(stmt.methods, st.environment, EmptyMap), LAMBDA mtds :
    Let(LoxClass(stmt.name.lexeme, mtds, superclass), LAMBDA class :
    Let(IF IsSome(superclass)
        THEN st.frames[st.environment].parent
        ELSE st.environment, LAMBDA env :
    Let(EnvSet(st.frames, env, stmt.name, class), LAMBDA w :
    Let([st EXCEPT !.environment = env, !.frames = w.fr], LAMBDA st1 :
        IF w.ok THEN Ok(st1, Nil) ELSE NewRuntime(st1, w.line, w.message))))))

\* Interpreter::execute, Stmt::Class
ExecuteClass(stmt, st) ==
    Let([st EXCEPT !.frames =
             Define(@, st.environment, stmt.name.lexeme, Nil)], LAMBDA st1 :
        IF ~IsSome(stmt.superclass) THEN FinishClass(stmt, st1, None)
        ELSE Let(Evaluate(Unwrap(stmt.superclass), st1), LAMBDA sc :
                 IF sc.tag # "Ok" THEN sc
                 ELSE IF sc.v.kind # "Class"
                 THEN NewRuntime(sc.st, stmt.name.line, "Superclass must be a class")
                 ELSE Let(NewChild(sc.st.frames, sc.st.environment), LAMBDA fr1 :
                      Let(Len(fr1), LAMBDA env :
                          FinishClass(stmt,
                            [sc.st EXCEPT !.frames = Define(fr1, env, "super", sc.v),
                                          !.environment = env],
                            Some(sc.v))))))

\* Interpreter::execute
ExecuteStmt(stmt, st) ==
    CASE stmt.node = "Expr" ->
            Let(Evaluate(stmt.expr, st), LAMBDA r :
                IF r.tag # "Ok" THEN r ELSE Ok(r.st, Nil))
      [] stmt.node = "Print" ->
            Let(Evaluate(stmt.expr, st), LAMBDA r :
                IF r.tag # "Ok" THEN r
                ELSE IF Conflicts(r.st, r.v) THEN Panic(r.st, "already mutably borrowed")
                ELSE Ok(Log([r.st EXCEPT !.out =
                                Append(@, TypesDisplay(r.v, r.st.instances))],
                            [ev |-> "Print", v |-> r.v,
                             text |-> TypesDisplay(r.v, r.st.instances)]), Nil))
      [] stmt.node = "Var" ->
            Let(IF IsSome(stmt.initializer)
                THEN Evaluate(Unwrap(stmt.initializer), st)
                ELSE Ok(st, Nil), LAMBDA r :
                IF r.tag # "Ok" THEN r
                ELSE IF stmt.name.tok_typ # "Identifier" THEN Panic(r.st, "unreachable")
                ELSE Ok([r.st EXCEPT !.frames =
                            Define(@, r.st.environment, stmt.name.lexeme, r.v)], Nil))
      [] stmt.node = "Block" -> ExecuteBlockStmt(stmt, st)
      [] stmt.node = "If" ->
            Let(Evaluate(stmt.condition, st), LAMBDA c :
                IF c.tag # "Ok" THEN c
                ELSE IF IsTruty(c.v) THEN Execute(stmt.then_branch, c.st)
                ELSE IF IsSome(stmt.else_branch)
                THEN Execute(Unwrap(stmt.else_branch), c.st)
                ELSE Ok(c.st, Nil))
      [] stmt.node = "While" -> WhileLoop(stmt, st, 0)
      [] stmt.node = "Function" ->
            Ok([st EXCEPT !.frames =
                    Define(@, st.environment, stmt.name.lexeme,
                           LoxFunction(stmt.name, stmt.params, stmt.body,
                                       st.environment, FALSE))], Nil)
      [] stmt.node = "Return" ->
            IF IsSome(stmt.retval)
            THEN Let(Evaluate(Unwrap(stmt.retval), st), LAMBDA value :
                     IF value.tag # "Ok" THEN value ELSE NewReturn(value.st, value.v))
            ELSE NewReturn(st, Nil)
      [] OTHER -> ExecuteClass(stmt, st)

\* Interpreter::execute with its history entry: the statement, how it ended
\* and the current environment before and after it
Execute(stmt, st) ==
    Let(ExecuteStmt(stmt, st), LAMBDA r :
        [r EXCEPT !.st = Log(@, [ev |-> "Stmt", node |-> stmt.node, tag |-> r.tag,
                                 before |-> st.environment,
                                 after |-> r.st.environment,
                                 depth |-> Len(st.calls)])])

-----------------------------------------------------------------------------
(* resolver.rs.  An operator takes the resolver state                        *)
(* rs = [scopes, function_kind, class_kind, locals, trace] (locals is the   *)
(* interpreter's side-table, written through Interpreter::resolve) and      *)
(* yields [ok, rs, line, message].                                          *)

ResolveOk(rs) == [ok |-> TRUE, rs |-> rs, line |-> 0, message |-> ""]
ResolveErr(rs, line, message) ==
    [ok |-> FALSE, rs |-> rs, line |-> line, message |-> message]

\* Resolver::begin_scope
BeginScope(rs) == [rs EXCEPT !.scopes = Append(@, EmptyMap)]

\* Resolver::end_scope
EndScope(rs) == [rs EXCEPT !.scopes = SubSeq(@, 1, Len(@) - 1)]

\* scopes.last_mut().unwrap().insert(name, true)
InsertLast(rs, name, defined) ==
    [rs EXCEPT !.scopes[Len(rs.scopes)] = Insert(@, name, defined)]

\* the history entry of a check the resolver made at a site: what was
\* checked, the token it would report, its verdict and the state it saw
Site(rs, node, name, ok) ==
    [rs EXCEPT !.trace = Append(@,
        [ev |-> "Site", node |-> node, name |-> name.lexeme, line |-> name.line,
         ok |-> ok, function_kind |-> rs.function_kind,
         class_kind |-> rs.class_kind, depth |-> Len(rs.scopes)])]

\* the verdict r of a check at a site, entered in the history
Checked(r, node, name) == [r EXCEPT !.rs = Site(r.rs, node, name, r.ok)]

\* declare without the test for an existing entry
DeclareNoCheck(rs, name) ==
    Checked(IF rs.scopes = <<>> THEN ResolveOk(rs)
            ELSE ResolveOk(InsertLast(rs, name.lexeme, FALSE)),
            "Declare", name)

\* Resolver::declare
Declare(rs, name) ==
    Checked(IF rs.scopes = <<>> THEN ResolveOk(rs)
            ELSE IF ContainsKey(rs.scopes[Len(rs.scopes)], name.lexeme)
            THEN ResolveErr(rs, name.line,
                    "A variable with name '" \o name.lexeme
                        \o "' already exists within this scope")
            ELSE ResolveOk(InsertLast(rs, name.lexeme, FALSE)),
            "Declare", name)

\* Resolver::define
DefineName(rs, name) ==
    IF rs.scopes = <<>> THEN rs ELSE InsertLast(rs, name.lexeme, TRUE)

\* Interpreter::resolve
InterpreterResolve(locals_, expr, depth) == Insert(locals_, ExprToString(expr), depth)

\* the loop of Resolver::resolve_local: i counts scopes from the innermost
RECURSIVE ResolveLocalLoop(_, _, _, _, _)
ResolveLocalLoop(scopes_, locals_, expr, name, i) ==
    IF i >= Len(scopes_) THEN locals_
    ELSE ResolveLocalLoop(scopes_,
            IF ContainsKey(scopes_[Len(scopes_) - i], name.lexeme)
            THEN InterpreterResolve(locals_, expr, i)
            ELSE locals_,
            expr, name, i + 1)

\* the distance from the innermost scope to the nearest scope that declares
\* the name, -1 when none does
RECURSIVE Innermost(_, _, _)
Innermost(scopes_, name, i) ==
    IF i >= Len(scopes_) THEN -1
    ELSE IF ContainsKey(scopes_[Len(scopes_) - i], name) THEN i
    ELSE Innermost(scopes_, name, i + 1)

\* Resolver::resolve_local; the history entry names the site, the nearest
\* declaring scope and the depth the side-table holds afterwards
ResolveLocal(rs, expr, name) ==
    Let(ExprToString(expr), LAMBDA key :
    Let(ResolveLocalLoop(rs.scopes, rs.locals, expr, name, 0), LAMBDA l :
        [rs EXCEPT
            !.locals = l,
            !.trace = Append(@, [ev |-> "Resolve", key |-> key, name |-> name.lexeme,
                                 line |-> name.line,
                                 innermost |-> Innermost(rs.scopes, name.lexeme, 0),
                                 declaring |-> Cardinality(
                                     {i \in 1..Len(rs.scopes) :
                                         ContainsKey(rs.scopes[i], name.lexeme)}),
                                 recorded |-> IF ContainsKey(l, key) THEN l[key] ELSE -1])]))

RECURSIVE ResolveStmt(_, _)
RECURSIVE ResolveExpr(_, _)
RECURSIVE ResolveAll(_, _, _)
RECURSIVE ResolveArgs(_, _, _)
RECURSIVE ResolveFunction(_, _, _, _)
RECURSIVE ResolveMethods(_, _, _)

\* the loop of Resolver::resolve over a nested statement list
ResolveAll(rs, statements, i) ==
    IF i > Len(statements) THEN ResolveOk(rs)
    ELSE Let(ResolveStmt(rs, statements[i]), LAMBDA r :
             IF ~r.ok THEN r ELSE ResolveAll(r.rs, statements, i + 1))

\* the argument loop of Expr::Call in resolve_expr
ResolveArgs(rs, arguments, i) ==
    IF i > Len(arguments) THEN ResolveOk(rs)
    ELSE Let(ResolveExpr(rs, arguments[i]), LAMBDA r :
             IF ~r.ok THEN r ELSE ResolveArgs(r.rs, arguments, i + 1))

\* the parameter loop of Resolver::resolve_function
RECURSIVE DeclareParams(_, _, _)
DeclareParams(rs, params, i) ==
    IF i > Len(params) THEN ResolveOk(rs)
    ELSE Let(Declare(rs, params[i]), LAMBDA d :
             IF ~d.ok THEN d
             ELSE DeclareParams(DefineName(d.rs, params[i]), params, i + 1))

\* resolve_function without 'self.function_kind = prev_kind'
ResolveFunctionKeepKind(rs, params, body, kind) ==
    Let(DeclareParams(BeginScope([rs EXCEPT !.function_kind = kind]), params, 1), LAMBDA p :
        IF ~p.ok THEN p
        ELSE Let(ResolveAll(p.rs, body, 1), LAMBDA b :
                 IF ~b.ok THEN b ELSE ResolveOk(EndScope(b.rs))))

\* Resolver::resolve_function
ResolveFunction(rs, params, body, kind) ==
    Let(rs.function_kind, LAMBDA prev_kind :
    Let(DeclareParams(BeginScope([rs EXCEPT !.function_kind = kind]), params, 1), LAMBDA p :
        IF ~p.ok THEN p
        ELSE Let(ResolveAll(p.rs, body, 1), LAMBDA b :
                 IF ~b.ok THEN b
                 ELSE ResolveOk([EndScope(b.rs) EXCEPT !.function_kind = prev_kind]))))

\* the method loop of Stmt::Class in resolve_stmt
ResolveMethods(rs, methods, i) ==
    IF i > Len(methods) THEN ResolveOk(rs)
    ELSE Let(methods[i], LAMBDA m :
         Let(ResolveFunction(rs, m.params, m.body,
               IF m.name.lexeme = "init" THEN "Initializer" ELSE "Method"), LAMBDA r :
             IF ~r.ok THEN r ELSE ResolveMethods(r.rs, methods, i + 1)))

\* the class arm without 'self.class_kind = enclosing_class'
ResolveClassBodyKeep(rs, stmt, enclosing_class) ==
    Let(IsSome(stmt.superclass), LAMBDA has_super :
    Let(IF has_super
        THEN ResolveExpr([rs EXCEPT !.class_kind = "SubClass"],
                         Unwrap(stmt.superclass))
        ELSE ResolveOk(rs), LAMBDA sup :
        IF has_super /\ stmt.name.lexeme = Unwrap(stmt.superclass).name.lexeme
        THEN Checked(ResolveErr(rs, stmt.name.line,
                                "A class can't inherit from itself."),
                     "Inherit", stmt.name)
        ELSE IF ~sup.ok THEN sup
        ELSE
        Let(IF has_super
            THEN InsertLast(BeginScope(sup.rs), "super", TRUE)
            ELSE sup.rs, LAMBDA rs1 :
        Let(InsertLast(BeginScope(rs1), "this", TRUE), LAMBDA rs2 :
        Let(ResolveMethods(rs2, stmt.methods, 1), LAMBDA m :
            IF ~m.ok THEN m
            ELSE Let(EndScope(m.rs), LAMBDA rs3 :
                 Let(IF has_super THEN EndScope(rs3) ELSE rs3, LAMBDA rs4 :
                     ResolveOk(rs4))))))))

\* Resolver::resolve_stmt, Stmt::Class once the name is declared and defined
ResolveClassBody(rs, stmt, enclosing_class) ==
    Let(IsSome(stmt.superclass), LAMBDA has_super :
    Let(IF has_super
        THEN ResolveExpr([rs EXCEPT !.class_kind = "SubClass"],
                         Unwrap(stmt.superclass))
        ELSE ResolveOk(rs), LAMBDA sup :
        IF has_super /\ stmt.name.lexeme = Unwrap(stmt.superclass).name.lexeme
        THEN Checked(ResolveErr(rs, stmt.name.line,
                                "A class can't inherit from itself."),
                     "Inherit", stmt.name)
        ELSE IF ~sup.ok THEN sup
        ELSE
        Let(IF has_super
            THEN InsertLast(BeginScope(sup.rs), "super", TRUE)
            ELSE sup.rs, LAMBDA rs1 :
        Let(InsertLast(BeginScope(rs1), "this", TRUE), LAMBDA rs2 :
        Let(ResolveMethods(rs2, stmt.methods, 1), LAMBDA m :
            IF ~m.ok THEN m
            ELSE Let(EndScope(m.rs), LAMBDA rs3 :
                 Let(IF has_super THEN EndScope(rs3) ELSE rs3, LAMBDA rs4 :
                     ResolveOk([rs4 EXCEPT !.class_kind = enclosing_class]))))))))

\* Resolver::resolve_stmt
ResolveStmt(rs, stmt) ==
    CASE stmt.node = "Function" ->
            Let(Declare(rs, stmt.name), LAMBDA d :
                IF ~d.ok THEN d
                ELSE ResolveFunction(DefineName(d.rs, stmt.name), stmt.params,
                                     stmt.body, "Function"))
      [] stmt.node \in {"Expr", "Print"} -> ResolveExpr(rs, stmt.expr)
      [] stmt.node = "If" ->
            Let(ResolveExpr(rs, stmt.condition), LAMBDA c :
                IF ~c.ok THEN c
                ELSE Let(ResolveStmt(c.rs, stmt.then_branch), LAMBDA t :
                         IF ~t.ok THEN t
                         ELSE IF IsSome(stmt.else_branch)
                         THEN ResolveStmt(t.rs, Unwrap(stmt.else_branch))
                         ELSE t))
      [] stmt.node = "Return" ->
            Checked(
               CASE rs.function_kind = "None" ->
                       ResolveErr(rs, stmt.keyword.line,
                                  "Can't return from top-level code.")
                 [] rs.function_kind = "Initializer" ->
                       IF IsSome(stmt.retval)
                       THEN ResolveErr(rs, stmt.keyword.line,
                               "Cannot return a value from an initializer")
                       ELSE ResolveOk(rs)
                 [] OTHER ->
                       IF IsSome(stmt.retval)
                       THEN ResolveExpr(rs, Unwrap(stmt.retval))
                       ELSE ResolveOk(rs),
               "Return", stmt.keyword)
      [] stmt.node = "While" ->
            Let(ResolveExpr(rs, stmt.condition), LAMBDA c :
                IF ~c.ok THEN c ELSE ResolveStmt(c.rs, stmt.loop_body))
      [] stmt.node = "Var" ->
            Let(Declare(rs, stmt.name), LAMBDA d :
                IF ~d.ok THEN d
                ELSE Let(IF IsSome(stmt.initializer)
                         THEN ResolveExpr(d.rs, Unwrap(stmt.initializer))
                         ELSE d, LAMBDA i :
                         IF ~i.ok THEN i
                         ELSE ResolveOk(DefineName(i.rs, stmt.name))))
      [] stmt.node = "Block" ->
            Let(ResolveAll(BeginScope(rs), stmt.stmts, 1), LAMBDA b :
                IF ~b.ok THEN b ELSE ResolveOk(EndScope(b.rs)))
      [] OTHER ->
            Let(rs.class_kind, LAMBDA enclosing_class :
            Let(Declare([rs EXCEPT !.class_kind = "Class"], stmt.name), LAMBDA d :
                IF ~d.ok THEN d
                ELSE ResolveClassBody(DefineName(d.rs, stmt.name), stmt,
                                      enclosing_class)))

\* Resolver::resolve_expr
ResolveExpr(rs, expr) ==
    CASE expr.node = "Variable" ->
            IF /\ rs.scopes # <<>>
               /\ ContainsKey(rs.scopes[Len(rs.scopes)], expr.name.lexeme)
               /\ ~rs.scopes[Len(rs.scopes)][expr.name.lexeme]
            THEN ResolveErr(rs, expr.name.line,
                    "Can't read local var in it's own initializer")
            ELSE ResolveOk(ResolveLocal(rs, expr, expr.name))
      [] expr.node = "Assignment" ->
            Let(ResolveExpr(rs, expr.value), LAMBDA v :
                IF ~v.ok THEN v
                ELSE ResolveOk(ResolveLocal(v.rs, expr.value, expr.name)))
      [] expr.node \in {"Binary", "Logical"} ->
            Let(ResolveExpr(rs, expr.left), LAMBDA l :
                IF ~l.ok THEN l ELSE ResolveExpr(l.rs, expr.right))
      [] expr.node = "Call" ->
            Let(ResolveExpr(rs, expr.callee), LAMBDA c :
                IF ~c.ok THEN c ELSE ResolveArgs(c.rs, expr.arguments, 1))
      [] expr.node = "Grouping" -> ResolveExpr(rs, expr.expr)
      [] expr.node = "Literal" -> ResolveOk(rs)
      [] expr.node = "Unary" -> ResolveExpr(rs, expr.right)
      [] expr.node = "Get" -> ResolveExpr(rs, expr.object)
      [] expr.node = "Set" ->
            Let(ResolveExpr(rs, expr.object), LAMBDA o :
                IF ~o.ok THEN o ELSE ResolveExpr(o.rs, expr.value))
      [] expr.node = "This" ->
            Checked(
               IF rs.class_kind = "None"
               THEN ResolveErr(rs, expr.keyword.line,
                       "Cannot use 'this' outside of a class.")
               ELSE ResolveOk(ResolveLocal(rs, expr, expr.keyword)),
               "This", expr.keyword)
      [] OTHER ->
            Checked(
               CASE rs.class_kind = "None" ->
                       ResolveErr(rs, expr.keyword.line,
                           "Can't use 'super' outside of a class.")
                 [] rs.class_kind = "Class" ->
                       ResolveErr(rs, expr.keyword.line,
                           "Can't use 'super' in a class with no superclass.")
                 [] OTHER -> ResolveOk(ResolveLocal(rs, expr, expr.keyword)),
               "Super", expr.keyword)

-----------------------------------------------------------------------------
(* Source programs.  Every token carries the line it stands on, so a site   *)
(* is identified by its name and line.                                      *)

Id(name, line) == Identifier(name, line)
V(name, line) == Variable(Identifier(name, line))
Num(n, line) == Literal(NumberToken(n, line))
Str(s, line) == Literal(StrToken(s, line))
Lit(tok_typ, line) == Literal(Keyword(tok_typ, line))
Op(tok_typ, line) == Keyword(tok_typ, line)
CallE(callee, arguments, line) == Call(callee, Keyword("RightParen", line), arguments)
Fun(name, params, body, line) ==
    FunctionStmt(Id(name, line),
                 [i \in 1..Len(params) |-> Id(params[i], line)], body)
ReturnS(value, line) == ReturnStmt(Keyword("Return", line), value)

\* scenario S1 of the specification, and S1 with a read of the block's own a
\* after its declaration
S1Block(tail) ==
    BlockStmt(<<Fun("showA", <<>>, <<PrintStmt(V("a", 3))>>, 3),
                ExprStmt(CallE(V("showA", 4), <<>>, 4)),
                VarStmt(Id("a", 5), Some(Str("block", 5))),
                ExprStmt(CallE(V("showA", 6), <<>>, 6))>> \o tail)

ProgS1 == <<VarStmt(Id("a", 1), Some(Str("global", 1))), S1Block(<<>>)>>
ProgS1Read ==
    <<VarStmt(Id("a", 1), Some(Str("global", 1))),
      S1Block(<<PrintStmt(V("a", 7))>>)>>

\* shorthands
Bin(left, tok_typ, right, line) == Binary(left, Op(tok_typ, line), right)
GetE(object, name, line) == Get(object, Id(name, line))
SetE(object, name, value, line) == SetExpr(object, Id(name, line), value)
ThisE(line) == This(Keyword("This", line))
SuperE(method, line) == Super(Keyword("Super", line), Id(method, line))
New(class, arguments, line) == CallE(V(class, line), arguments, line)
Invoke(object, method, arguments, line) ==
    CallE(GetE(object, method, line), arguments, line)
ClassS(name, superclass, methods, line) ==
    ClassStmt(Id(name, line),
              IF superclass = "" THEN None ELSE Some(V(superclass, line)),
              methods)

\* scenario S2 of the specification: inheritance and super
ProgS2 ==
    <<ClassS("A", "", <<Fun("method", <<>>, <<PrintStmt(Str("A method", 1))>>, 1)>>, 1),
      ClassS("B", "A",
             <<Fun("method", <<>>, <<PrintStmt(Str("B method", 3))>>, 3),
               Fun("test", <<>>, <<ExprStmt(CallE(SuperE("method", 4), <<>>, 4))>>, 4)>>,
             2),
      ClassS("C", "B", <<>>, 5)>>

DriversS2 ==
    <<ExprStmt(Invoke(New("C", <<>>, 6), "test", <<>>, 6)),
      ExprStmt(Invoke(New("B", <<>>, 7), "test", <<>>, 7)),
      ExprStmt(Invoke(New("C", <<>>, 8), "method", <<>>, 8)),
      ExprStmt(Invoke(New("B", <<>>, 9), "method", <<>>, 9)),
      BlockStmt(<<VarStmt(Id("c", 10), Some(New("B", <<>>, 10))),
                  ExprStmt(SetE(V("c", 11), "method", Str("field", 11), 11)),
                  PrintStmt(GetE(V("c", 12), "method", 12))>>)>>

\* a chain C < B < A whose methods reach each other through super only
ProgSuper ==
    <<ClassS("A", "",
             <<Fun("method", <<>>, <<PrintStmt(Str("A method", 21))>>, 21),
               Fun("other", <<>>, <<PrintStmt(Str("A other", 22))>>, 22)>>, 20),
      ClassS("B", "A",
             <<Fun("method", <<>>, <<PrintStmt(Str("B method", 23))>>, 23),
               Fun("test", <<>>, <<ExprStmt(CallE(SuperE("method", 24), <<>>, 24))>>, 24),
               Fun("miss", <<>>, <<ExprStmt(CallE(SuperE("nope", 25), <<>>, 25))>>, 25)>>,
             20),
      ClassS("C", "B",
             <<Fun("method", <<>>, <<PrintStmt(Str("C method", 26))>>, 26),
               Fun("test2", <<>>, <<ExprStmt(CallE(SuperE("test", 27), <<>>, 27))>>, 27),
               Fun("far", <<>>, <<ExprStmt(CallE(SuperE("other", 28), <<>>, 28))>>, 28)>>,
             20)>>

DriversSuper ==
    <<ExprStmt(Invoke(New("C", <<>>, 30), "test2", <<>>, 30)),
      ExprStmt(Invoke(New("B", <<>>, 31), "test", <<>>, 31)),
      ExprStmt(Invoke(New("B", <<>>, 32), "miss", <<>>, 32)),
      ExprStmt(Invoke(New("C", <<>>, 33), "far", <<>>, 33)),
      ExprStmt(Invoke(New("C", <<>>, 34), "test", <<>>, 34))>>

\* one print statement for every kind of value
ProgPrint ==
    <<Fun("f", <<>>, <<>>, 40),
      ClassS("K", "", <<>>, 41)>>

DriversPrint ==
    <<PrintStmt(Num(7, 42)),
      PrintStmt(Binary(Num(3, 43), Op("Slash", 43), Num(2, 43))),
      PrintStmt(Lit("Nil", 44)),
      PrintStmt(Lit("True", 45)),
      PrintStmt(Lit("False", 46)),
      PrintStmt(Str("hi", 47)),
      PrintStmt(V("f", 48)),
      PrintStmt(V("K", 49)),
      PrintStmt(New("K", <<>>, 50)),
      PrintStmt(Unary(Op("Minus", 51), Num(2, 51)))>>

\* globals x and z; local sites with the text of the global sites: a read of
\* a block's x and an assignment with the right-hand side 3, one scope in;
\* and functions that read x and assign z
ProgGlobal ==
    <<VarStmt(Id("x", 60), Some(Num(1, 60))),
      VarStmt(Id("z", 61), Some(Num(5, 61))),
      BlockStmt(<<VarStmt(Id("x", 62), Some(Num(2, 62))),
                  VarStmt(Id("y", 62), None),
                  BlockStmt(<<PrintStmt(V("x", 63)),
                              ExprStmt(Assignment(Id("y", 64), Num(3, 64)))>>)>>),
      Fun("r", <<>>, <<PrintStmt(V("x", 65))>>, 65),
      Fun("w", <<>>,
          <<BlockStmt(<<BlockStmt(<<ExprStmt(Assignment(Id("z", 66), Num(3, 66)))>>)>>)>>,
          66)>>

DriversGlobal ==
    <<PrintStmt(V("x", 70)),
      ExprStmt(Assignment(Id("x", 71), Num(3, 71))),
      ExprStmt(CallE(V("r", 72), <<>>, 72)),
      ExprStmt(CallE(V("w", 73), <<>>, 73)),
      PrintStmt(V("z", 74)),
      ExprStmt(Assignment(Id("z", 75), Num(4, 75)))>>

\* property assignments whose value reads from the instance it assigns to
ProgSet ==
    <<ClassS("K", "",
             <<Fun("init", <<>>,
                   <<ExprStmt(SetE(ThisE(80), "n", Num(0, 80), 80)),
                     ExprStmt(SetE(ThisE(81), "y", Num(7, 81), 81))>>, 80),
               Fun("bump", <<>>,
                   <<ExprStmt(SetE(ThisE(82), "n",
                                   Bin(GetE(ThisE(82), "n", 82), "Plus", Num(1, 82), 82),
                                   82))>>, 82),
               Fun("copy", <<>>,
                   <<ExprStmt(SetE(ThisE(83), "x", GetE(ThisE(83), "y", 83), 83))>>, 83),
               Fun("seven", <<>>, <<ReturnS(Some(Num(7, 84)), 84)>>, 84)>>, 80),
      VarStmt(Id("o", 85), Some(New("K", <<>>, 85))),
      VarStmt(Id("p", 86), Some(New("K", <<>>, 86)))>>

DriversSet ==
    <<ExprStmt(SetE(V("o", 90), "n",
                    Bin(GetE(V("o", 90), "n", 90), "Plus", Num(1, 90), 90), 90)),
      ExprStmt(Invoke(V("o", 91), "bump", <<>>, 91)),
      ExprStmt(Invoke(V("o", 92), "copy", <<>>, 92)),
      ExprStmt(SetE(V("o", 93), "z", Invoke(V("o", 93), "seven", <<>>, 93), 93)),
      ExprStmt(SetE(V("o", 94), "z", Num(5, 94), 94)),
      ExprStmt(SetE(V("o", 95), "z", GetE(V("p", 95), "y", 95), 95)),
      PrintStmt(GetE(V("o", 96), "n", 96)),
      BlockStmt(<<ExprStmt(SetE(V("o", 97), "seven", Num(5, 97), 97)),
                  PrintStmt(GetE(V("o", 98), "seven", 98)),
                  PrintStmt(GetE(V("p", 99), "seven", 99))>>)>>

\* recursive and nested invocations, and a function value called from a
\* frame other than the one it was created in:
\*   fun down(n) { var local = n + n; if (0 < n) down(n - 1);
\*                 print n; print local; }
\*   fun outer(a) { fun inner(a) { print a; } inner(a + 1); print a; }
\*   fun mk(v) { fun get() { return v; } return get; }
\*   fun caller(w) { var v = 9; var h = mk(1); print h(); print w; }
ProgFrames ==
    <<Fun("down", <<"n">>,
          <<VarStmt(Id("local", 101),
                    Some(Bin(V("n", 101), "Plus", V("n", 101), 101))),
            IfStmt(Bin(Num(0, 102), "Less", V("n", 102), 102),
                   ExprStmt(CallE(V("down", 102),
                                  <<Bin(V("n", 102), "Minus", Num(1, 102), 102)>>, 102)),
                   None),
            PrintStmt(V("n", 103)),
            PrintStmt(V("local", 104))>>, 100),
      Fun("outer", <<"a">>,
          <<Fun("inner", <<"a">>, <<PrintStmt(V("a", 106))>>, 106),
            ExprStmt(CallE(V("inner", 107),
                           <<Bin(V("a", 107), "Plus", Num(1, 107), 107)>>, 107)),
            PrintStmt(V("a", 108))>>, 105),
      Fun("mk", <<"v">>,
          <<Fun("get", <<>>, <<ReturnS(Some(V("v", 110)), 110)>>, 110),
            ReturnS(Some(V("get", 111)), 111)>>, 109),
      Fun("caller", <<"w">>,
          <<VarStmt(Id("v", 113), Some(Num(9, 113))),
            VarStmt(Id("h", 114), Some(CallE(V("mk", 114), <<Num(1, 114)>>, 114))),
            PrintStmt(CallE(V("h", 115), <<>>, 115)),
            PrintStmt(V("w", 116))>>, 112)>>

DriversFrames ==
    <<ExprStmt(CallE(V("down", 120), <<Num(2, 120)>>, 120)),
      ExprStmt(CallE(V("outer", 121), <<Num(1, 121)>>, 121)),
      ExprStmt(CallE(V("caller", 122), <<Num(2, 122)>>, 122)),
      ExprStmt(CallE(V("down", 123), <<Num(1, 123)>>, 123))>>

\* initializers: scenario S3, a return nested in if / while / block, an
\* inherited init, a nested function that returns a value
ProgInit ==
    <<ClassS("Foo", "", <<Fun("init", <<>>, <<ReturnS(None, 1)>>, 1)>>, 1),
      ClassS("Bar", "",
             <<Fun("init", <<"x">>,
                   <<ExprStmt(SetE(ThisE(2), "x", V("x", 2), 2)),
                     IfStmt(V("x", 3),
                            BlockStmt(<<WhileStmt(Lit("True", 3),
                                          BlockStmt(<<BlockStmt(<<ReturnS(None, 3)>>)>>))>>),
                            None),
                     ExprStmt(SetE(ThisE(4), "y", Num(2, 4), 4))>>, 2)>>, 2),
      ClassS("Baz", "Bar", <<>>, 5),
      ClassS("Qux", "",
             <<Fun("init", <<>>,
                   <<Fun("helper", <<>>, <<ReturnS(Some(Num(42, 6)), 6)>>, 6),
                     ExprStmt(SetE(ThisE(7), "v", CallE(V("helper", 7), <<>>, 7), 7))>>,
                   6)>>, 6)>>

DriversInit ==
    <<PrintStmt(New("Foo", <<>>, 10)),
      PrintStmt(Invoke(New("Foo", <<>>, 11), "init", <<>>, 11)),
      PrintStmt(GetE(New("Bar", <<Lit("True", 12)>>, 12), "x", 12)),
      PrintStmt(GetE(Invoke(New("Bar", <<Lit("False", 13)>>, 13), "init",
                            <<Num(7, 13)>>, 13), "x", 13)),
      PrintStmt(GetE(New("Baz", <<Num(3, 14)>>, 14), "x", 14)),
      PrintStmt(GetE(New("Qux", <<>>, 15), "v", 15))>>

\* bound methods: two instances of one class, methods taken from both
ProgThis ==
    <<ClassS("P", "",
             <<Fun("init", <<"n">>, <<ExprStmt(SetE(ThisE(1), "n", V("n", 1), 1))>>, 1),
               Fun("me", <<>>, <<ReturnS(Some(ThisE(2)), 2)>>, 2),
               Fun("num", <<>>, <<ReturnS(Some(GetE(ThisE(3), "n", 3)), 3)>>, 3)>>, 1),
      VarStmt(Id("a", 4), Some(New("P", <<Num(1, 4)>>, 4))),
      VarStmt(Id("b", 5), Some(New("P", <<Num(2, 5)>>, 5))),
      VarStmt(Id("m", 6), Some(GetE(V("a", 6), "num", 6))),
      VarStmt(Id("k", 7), Some(GetE(V("b", 7), "num", 7)))>>

DriversThis ==
    <<PrintStmt(CallE(V("m", 10), <<>>, 10)),
      PrintStmt(CallE(V("k", 11), <<>>, 11)),
      PrintStmt(Invoke(V("b", 12), "num", <<>>, 12)),
      PrintStmt(GetE(Invoke(V("a", 13), "me", <<>>, 13), "n", 13)),
      VarStmt(Id("m", 14), Some(GetE(V("b", 14), "num", 14)))>>

\* a class declared inside a method of another class
ProgNestedClass ==
    <<ClassS("Outer", "",
             <<Fun("m", <<>>,
                   <<ClassS("Inner", "",
                            <<Fun("n", <<>>, <<ReturnS(Some(ThisE(3)), 3)>>, 3)>>, 2),
                     ReturnS(Some(Invoke(New("Inner", <<>>, 4), "n", <<>>, 4)), 4)>>,
                   1)>>, 1),
      PrintStmt(Invoke(New("Outer", <<>>, 5), "m", <<>>, 5))>>

\* two closures over one block frame, handed out through globals; tail is
\* what else the block holds
CounterBlock(tail) ==
    BlockStmt(<<VarStmt(Id("x", 3), Some(Num(0, 3))),
                Fun("i", <<>>,
                    <<ExprStmt(Assignment(Id("x", 4),
                                          Bin(V("x", 4), "Plus", Num(1, 4), 4)))>>, 4),
                Fun("g", <<>>, <<ReturnS(Some(V("x", 5)), 5)>>, 5),
                ExprStmt(Assignment(Id("inc", 6), V("i", 6))),
                ExprStmt(Assignment(Id("get", 7), V("g", 7)))>> \o tail)

ProgCounter(tail) ==
    <<VarStmt(Id("x", 1), Some(Num(100, 1))),
      VarStmt(Id("inc", 1), None),
      VarStmt(Id("get", 2), None),
      CounterBlock(tail)>>

DriversCounter ==
    <<ExprStmt(CallE(V("inc", 10), <<>>, 10)),
      PrintStmt(CallE(V("get", 11), <<>>, 11))>>

\* a read of the block's x two blocks further in
DeepRead == <<BlockStmt(<<BlockStmt(<<PrintStmt(V("x", 8))>>)>>)>>

\* shadowing: an inner block declares a again and reads it
ProgShadow ==
    <<BlockStmt(<<VarStmt(Id("a", 1), Some(Num(1, 1))),
                  BlockStmt(<<VarStmt(Id("a", 2), Some(Num(2, 2))),
                              PrintStmt(V("a", 3))>>),
                  ExprStmt(Num(0, 4))>>)>>

\* operands of == and !=: every kind of value, two of each kind that has
\* identity, a bound method and NaN
ProgEq ==
    <<Fun("f", <<>>, <<>>, 1),
      Fun("h", <<>>, <<>>, 2),
      ClassS("K", "", <<Fun("m", <<>>, <<>>, 3)>>, 3),
      VarStmt(Id("o", 4), Some(New("K", <<>>, 4))),
      VarStmt(Id("p", 5), Some(New("K", <<>>, 5))),
      VarStmt(Id("nan", 6), Some(Bin(Num(0, 6), "Slash", Num(0, 6), 6))),
      VarStmt(Id("b", 7), Some(GetE(V("o", 7), "m", 7)))>>

EqOperands ==
    <<Lit("Nil", 9), Lit("True", 9), Lit("False", 9), Num(1, 9), Num(2, 9),
      Str("s", 9), Str("1", 9), V("nan", 9), V("f", 9), V("h", 9), V("K", 9),
      V("o", 9), V("p", 9), V("clock", 9), V("b", 9)>>

\* print (X == Y) == (Y == X);   and   print (X != Y) == (X == Y);
EqDriver(x, y, negated) ==
    IF negated
    THEN PrintStmt(Bin(Bin(x, "BangEqual", y, 9), "EqualEqual",
                       Bin(x, "EqualEqual", y, 9), 9))
    ELSE PrintStmt(Bin(Bin(x, "EqualEqual", y, 9), "EqualEqual",
                       Bin(y, "EqualEqual", x, 9), 9))

DriversEq ==
    Let(Len(EqOperands), LAMBDA n :
        [i \in 1..(2 * n * n) |->
            EqDriver(EqOperands[(((i - 1) \div 2) \div n) + 1],
                     EqOperands[(((i - 1) \div 2) % n) + 1],
                     (i % 2) = 0)])

\* return from nested blocks, if and while, from nested calls, from methods
\* and from an initializer
ProgReturn ==
    <<Fun("inner", <<>>,
          <<WhileStmt(Lit("True", 1),
                BlockStmt(<<IfStmt(Lit("True", 1),
                                   BlockStmt(<<BlockStmt(<<ReturnS(Some(Num(7, 1)), 1)>>)>>),
                                   None)>>))>>, 1),
      Fun("outer", <<>>,
          <<VarStmt(Id("r", 2), Some(CallE(V("inner", 2), <<>>, 2))),
            PrintStmt(Str("after", 2)),
            ReturnS(Some(Bin(V("r", 2), "Plus", Num(100, 2), 2)), 2)>>, 2),
      Fun("bare", <<>>,
          <<BlockStmt(<<ReturnS(None, 3)>>), PrintStmt(Str("unreached", 3))>>, 3),
      ClassS("T", "",
             <<Fun("init", <<>>, <<BlockStmt(<<ReturnS(None, 4)>>)>>, 4),
               Fun("m", <<>>,
                   <<IfStmt(Lit("True", 5), ReturnS(Some(Str("m", 5)), 5), None)>>, 5)>>,
             4),
      Fun("rec", <<"n">>,
          <<IfStmt(Bin(V("n", 6), "Less", Num(1, 6), 6),
                   ReturnS(Some(Num(0, 6)), 6), None),
            ReturnS(Some(Bin(Num(1, 7), "Plus",
                             CallE(V("rec", 7),
                                   <<Bin(V("n", 7), "Minus", Num(1, 7), 7)>>, 7), 7)),
                    7)>>, 6)>>

DriversReturn ==
    <<PrintStmt(CallE(V("outer", 10), <<>>, 10)),
      PrintStmt(CallE(V("inner", 11), <<>>, 11)),
      PrintStmt(CallE(V("bare", 12), <<>>, 12)),
      PrintStmt(Invoke(New("T", <<>>, 13), "m", <<>>, 13)),
      PrintStmt(CallE(V("rec", 14), <<Num(2, 14)>>, 14)),
      ReturnS(Some(Num(1, 15)), 15),
      ClassS("U", "", <<Fun("init", <<>>, <<ReturnS(Some(Num(1, 16)), 16)>>, 16)>>, 16)>>

\* statements that end with a return signal or a runtime error inside
\* blocks and function bodies, and class declarations with a superclass
ProgRestore ==
    <<ClassS("A", "", <<Fun("m", <<>>, <<>>, 1)>>, 1),
      VarStmt(Id("NotAClass", 2), Some(Num(1, 2))),
      Fun("f", <<>>, <<BlockStmt(<<BlockStmt(<<ReturnS(Some(Num(1, 3)), 3)>>)>>)>>, 3),
      Fun("g", <<>>, <<BlockStmt(<<PrintStmt(V("undefinedVar", 4))>>)>>, 4),
      BlockStmt(<<ClassS("F", "A",
                         <<Fun("m", <<>>, <<ReturnS(Some(SuperE("m", 5)), 5)>>, 5)>>, 5),
                  ExprStmt(CallE(V("f", 6), <<>>, 6))>>)>>

DriversRestore ==
    <<BlockStmt(<<VarStmt(Id("t", 10), Some(Num(1, 10))),
                  BlockStmt(<<PrintStmt(V("missing", 10))>>)>>),
      ClassS("E", "A", <<Fun("m", <<>>, <<>>, 11)>>, 11),
      ClassS("D", "NotAClass", <<>>, 12),
      ClassS("G", "Undefined", <<>>, 13),
      PrintStmt(CallE(V("f", 14), <<>>, 14)),
      BlockStmt(<<ExprStmt(CallE(V("g", 15), <<>>, 15))>>),
      WhileStmt(Lit("True", 16),
                BlockStmt(<<VarStmt(Id("q", 16), Some(Num(1, 16))),
                            PrintStmt(Bin(V("q", 16), "Minus", Str("s", 16), 16))>>))>>

Families ==
    << [prologue |-> ProgS1, drivers |-> <<>>, cap |-> 0],
       [prologue |-> ProgS1Read, drivers |-> <<>>, cap |-> 0],
       [prologue |-> ProgS2, drivers |-> DriversS2, cap |-> 2],
       [prologue |-> ProgInit, drivers |-> DriversInit, cap |-> 2],
       [prologue |-> ProgThis, drivers |-> DriversThis, cap |-> 3],
       [prologue |-> ProgNestedClass, drivers |-> <<>>, cap |-> 0],
       [prologue |-> ProgCounter(<<>>), drivers |-> DriversCounter, cap |-> 4],
       [prologue |-> ProgCounter(DeepRead), drivers |-> DriversCounter, cap |-> 4],
       [prologue |-> ProgShadow, drivers |-> <<>>, cap |-> 0],
       [prologue |-> ProgEq, drivers |-> DriversEq, cap |-> 1],
       [prologue |-> ProgReturn, drivers |-> DriversReturn, cap |-> 2],
       [prologue |-> ProgRestore, drivers |-> DriversRestore, cap |-> 2],
       [prologue |-> ProgSuper, drivers |-> DriversSuper, cap |-> 2],
       [prologue |-> ProgPrint, drivers |-> DriversPrint, cap |-> 2],
       [prologue |-> ProgGlobal, drivers |-> DriversGlobal, cap |-> 2],
       [prologue |-> ProgSet, drivers |-> DriversSet, cap |-> 2],
       [prologue |-> ProgFrames, drivers |-> DriversFrames, cap |-> 2] >>

MaxDrivers == 2   \* top-level driver statements appended to a prologue

Min(a, b) == IF a < b THEN a ELSE b

Picks(f) ==
    UNION {[1..n -> 1..Len(Families[f].drivers)] :
              n \in 0..Min(MaxDrivers, Families[f].cap)}

BuildProgram(f, picks) ==
    Families[f].prologue \o [i \in 1..Len(picks) |-> Families[f].drivers[picks[i]]]

-----------------------------------------------------------------------------
(* The pipeline: Resolver::resolve over the program, then                   *)
(* Interpreter::interpret, then the exit code.                              *)

\* Interpreter::new
InitInterpreter ==
    /\ locals = EmptyMap
    /\ frames = <<[parent |-> 0,
                   values |-> Insert(EmptyMap, "clock", NativeFunc("clock"))]>>
    /\ instances = <<>>
    /\ environment = GlobalEnv
    /\ out = <<>>
    /\ trace = <<>>

\* Resolver::new
InitResolver ==
    /\ scopes = <<>>
    /\ function_kind = "None"
    /\ class_kind = "None"

NoOutcome == [tag |-> "None", line |-> 0, message |-> "", code |-> 0, reported |-> FALSE]

\* the Err arm of the driver: e.report(); e.exit()
Failed(tag, line, message) ==
    [tag |-> tag, line |-> line, message |-> message, code |-> Code(tag),
     reported |-> Report(tag)]

Init ==
    /\ \E f \in 1..Len(Families) : \E picks \in Picks(f) :
            program = BuildProgram(f, picks)
    /\ phase = "resolve"
    /\ pc = 1
    /\ outcome = NoOutcome
    /\ InitResolver
    /\ InitInterpreter
    /\ tokens = <<>>
    /\ current = 0
    /\ stmts = <<>>
    /\ errors = <<>>
    /\ source = <<>>
    /\ scanner = ScannerNew(<<>>)

ResolverState ==
    [scopes |-> scopes, function_kind |-> function_kind, class_kind |-> class_kind,
     locals |-> locals, trace |-> trace]

InterpreterState ==
    [locals |-> locals, frames |-> frames, instances |-> instances,
     environment |-> environment, out |-> out, trace |-> trace,
     calls |-> <<>>, borrowed |-> {}]

\* one iteration of the loop of Resolver::resolve over the program
ResolveStep ==
    /\ phase = "resolve"
    /\ Let(ResolveStmt(ResolverState, program[pc]), LAMBDA r :
           /\ scopes' = r.rs.scopes
           /\ function_kind' = r.rs.function_kind
           /\ class_kind' = r.rs.class_kind
           /\ locals' = r.rs.locals
           /\ trace' = r.rs.trace
           /\ IF ~r.ok
              THEN /\ phase' = "done"
                   /\ outcome' = Failed("ResolutionError", r.line, r.message)
                   /\ pc' = pc
              ELSE /\ phase' = IF pc = Len(program) THEN "run" ELSE "resolve"
                   /\ pc' = IF pc = Len(program) THEN 1 ELSE pc + 1
                   /\ outcome' = outcome)
    /\ UNCHANGED <<scanner, program, frames, instances, environment, out,
                   tokens, current, stmts, errors, source>>

\* one iteration of the loop of Interpreter::interpret
InterpretStep ==
    /\ phase = "run"
    /\ Let(Execute(program[pc], InterpreterState), LAMBDA r :
           /\ locals' = r.st.locals
           /\ frames' = r.st.frames
           /\ instances' = r.st.instances
           /\ environment' = r.st.environment
           /\ out' = r.st.out
           /\ trace' = r.st.trace
           /\ IF r.tag # "Ok"
              THEN /\ phase' = "done"
                   /\ outcome' = Failed(r.tag, r.line, r.message)
                   /\ pc' = pc
              ELSE /\ phase' = IF pc = Len(program) THEN "done" ELSE "run"
                   /\ pc' = pc + 1
                   /\ outcome' = IF pc = Len(program)
                                 THEN [NoOutcome EXCEPT !.tag = "Ok"]
                                 ELSE outcome)
    /\ UNCHANGED <<scanner, program, scopes, function_kind, class_kind,
                   tokens, current, stmts, errors, source>>

Next == ResolveStep \/ InterpretStep

Spec == Init /\ [][Next]_vars

-----------------------------------------------------------------------------
(* Programs for the resolver's checks. A nesting program wraps a site in a   *)
(* chain of blocks, functions, methods and initializers of classes with and  *)
(* without a superclass (Self: of a class that names itself as superclass),  *)
(* and places a second site after the innermost                              *)
(* wrapper; a declaring program declares one name twice. source holds the    *)
(* description the program was built from.                                   *)

MaxNest == 3

Wrappers ==
    {"Block", "Fun", "FunInit", "Method", "Init", "SubMethod", "SubInit", "Self"}
Sites == {"none", "return", "return value", "this", "super"}

InnerLine == 2 * (MaxNest + 2)
AfterLine == InnerLine + 1

SiteStmts(site, line) ==
    CASE site = "return" -> <<ReturnS(None, line)>>
      [] site = "return value" -> <<ReturnS(Some(Num(1, line)), line)>>
      [] site = "this" -> <<PrintStmt(ThisE(line))>>
      [] site = "super" -> <<ExprStmt(CallE(SuperE("m", line), <<>>, line))>>
      [] OTHER -> <<>>

Wrap(w, body, line) ==
    CASE w = "Block" -> BlockStmt(body)
      [] w = "Fun" -> Fun("f", <<>>, body, line)
      [] w = "FunInit" -> Fun("init", <<>>, body, line)
      [] w = "Self" -> ClassS("K", "K", <<Fun("m", <<>>, body, line)>>, line)
      [] w = "Method" -> ClassS("K", "", <<Fun("m", <<>>, body, line)>>, line)
      [] w = "Init" -> ClassS("K", "", <<Fun("init", <<>>, body, line)>>, line)
      [] w = "SubMethod" ->
            ClassS("K", "Base", <<Fun("m", <<>>, body, line)>>, line)
      [] OTHER -> ClassS("K", "Base", <<Fun("init", <<>>, body, line)>>, line)

RECURSIVE NestBody(_, _)
NestBody(d, k) ==
    IF k > Len(d.ws) THEN SiteStmts(d.inner, InnerLine)
    ELSE <<Wrap(d.ws[k], NestBody(d, k + 1), k + 1)>>
         \o (IF k = Len(d.ws) THEN SiteStmts(d.after, AfterLine) ELSE <<>>)

NestProgram(d) == <<ClassS("Base", "", <<>>, 1)>> \o NestBody(d, 1)

NestPrograms ==
    {d \in [kind : {"nest"}, ws : UNION {[1..n -> Wrappers] : n \in 0..MaxNest},
            inner : Sites, after : Sites] :
        /\ d.inner # "none" \/ d.after # "none"
        /\ d.ws = <<>> => d.after = "none"}

\* the line of the k-th declaration of a declaring program
DeclLine(k) == 2 * k
FirstLine == DeclLine(1)
SecondLine == DeclLine(2)
TailLine == DeclLine(3)

Decl(kind, name, line) ==
    CASE kind = "var" -> VarStmt(Id(name, line), None)
      [] kind = "fun" -> Fun(name, <<>>, <<>>, line)
      [] OTHER -> ClassS(name, "", <<>>, line)

\* the second declaration where the description puts it: in the scope of the
\* first, in a block of it, or in a function of it
SecondPlaced(d) ==
    CASE d.where = "same" -> <<Decl(d.second, "a", SecondLine)>>
      [] d.where = "block" -> <<BlockStmt(<<Decl(d.second, "a", SecondLine)>>)>>
      [] OTHER ->
            IF d.second = "param"
            THEN <<FunctionStmt(Id("g", 1), <<Id("a", SecondLine)>>, <<>>)>>
            ELSE <<Fun("g", <<>>, <<Decl(d.second, "a", SecondLine)>>, 1)>>

DeclParams(d) ==
    IF d.first # "param" THEN <<>>
    ELSE IF d.second = "param" /\ d.where = "same"
    THEN <<Id("a", FirstLine), Id("a", SecondLine)>>
    ELSE <<Id("a", FirstLine)>>

DeclBody(d) ==
    (IF d.first = "param" THEN <<>> ELSE <<Decl(d.first, "a", FirstLine)>>)
    \o (IF d.second = "param" /\ d.where = "same" THEN <<>> ELSE SecondPlaced(d))

\* a further scope that declares b twice, after the two declarations of a
Trailing == BlockStmt(<<Decl("var", "b", TailLine), Decl("var", "b", TailLine + 1)>>)

DeclProgram(d) ==
    (CASE d.place = "Global" -> DeclBody(d)
       [] d.place = "Block" -> <<BlockStmt(DeclBody(d))>>
       [] d.place = "Fun" -> <<FunctionStmt(Id("f", 1), DeclParams(d), DeclBody(d))>>
       [] OTHER -> <<ClassStmt(Id("K", 1), None,
                        <<FunctionStmt(Id("m", 1), DeclParams(d), DeclBody(d))>>)>>)
    \o (IF d.tail THEN <<Trailing>> ELSE <<>>)

DeclPrograms ==
    {d \in [kind : {"decl"}, place : {"Global", "Block", "Fun", "Method"},
            first : {"var", "fun", "class", "param"},
            second : {"var", "fun", "class", "param"},
            where : {"same", "block", "fun"}, tail : BOOLEAN] :
        /\ d.first = "param" => d.place \in {"Fun", "Method"}
        /\ d.second = "param" /\ d.where = "same" => d.first = "param"
        /\ d.second = "param" => d.where # "block"}

InitResolverPrograms ==
    /\ \E d \in NestPrograms \cup DeclPrograms :
            /\ source = d
            /\ program = IF d.kind = "nest" THEN NestProgram(d) ELSE DeclProgram(d)
    /\ phase = "resolve"
    /\ pc = 1
    /\ outcome = NoOutcome
    /\ InitResolver
    /\ InitInterpreter
    /\ tokens = <<>>
    /\ current = 0
    /\ stmts = <<>>
    /\ errors = <<>>
    /\ scanner = ScannerNew(<<>>)

SpecResolver == InitResolverPrograms /\ [][Next]_vars

-----------------------------------------------------------------------------
(* Programs for the call expression: functions of 0 and 2 parameters, a     *)
(* class with init(x), a subclass of it without init, a class without init, *)
(* an instance and a number, and call sites whose callee and arguments are  *)
(* assignments, so that the history shows the order they were evaluated in. *)

Callees == <<"f0", "f2", "A", "B", "C", "clock", "o", "v">>
MaxArgs == 2

ProgCalls ==
    <<VarStmt(Id("t", 1), None),
      VarStmt(Id("c", 1), None),
      Fun("f0", <<>>, <<PrintStmt(Str("f0", 2))>>, 2),
      Fun("f2", <<"x", "y">>, <<PrintStmt(Str("f2", 3))>>, 3),
      ClassS("A", "", <<Fun("init", <<"x">>, <<PrintStmt(Str("A", 4))>>, 4)>>, 4),
      ClassS("B", "A", <<>>, 5),
      ClassS("C", "", <<>>, 6),
      VarStmt(Id("o", 7), Some(New("C", <<>>, 7))),
      VarStmt(Id("v", 8), Some(Num(1, 8)))>>

\* the line of the call site with the k-th callee and n arguments
CallLine(k, n) == 10 + (k * (MaxArgs + 1)) + n

\* (c = callee)(t = 1, .., t = n);
CallOf(k, n) ==
    CallE(Assignment(Id("c", CallLine(k, n)), V(Callees[k], CallLine(k, n))),
          [j \in 1..n |-> Assignment(Id("t", CallLine(k, n)), Num(j, CallLine(k, n)))],
          CallLine(k, n))

\* the call sites as statements, and as the value of a property assignment to
\* the instance o
DriversCalls ==
    [i \in 1..(2 * Len(Callees) * (MaxArgs + 1)) |->
        Let(((i - 1) % Len(Callees)) + 1, LAMBDA k :
        Let(((i - 1) \div Len(Callees)) % (MaxArgs + 1), LAMBDA n :
            IF i <= Len(Callees) * (MaxArgs + 1)
            THEN ExprStmt(CallOf(k, n))
            ELSE ExprStmt(SetE(V("o", CallLine(k, n)), "x", CallOf(k, n),
                               CallLine(k, n)))))]

InitCalls ==
    /\ \E picks \in UNION {[1..m -> 1..Len(DriversCalls)] : m \in 1..MaxDrivers} :
            /\ program = ProgCalls \o [i \in 1..Len(picks) |-> DriversCalls[picks[i]]]
            /\ source = picks
    /\ phase = "resolve"
    /\ pc = 1
    /\ outcome = NoOutcome
    /\ InitResolver
    /\ InitInterpreter
    /\ tokens = <<>>
    /\ current = 0
    /\ stmts = <<>>
    /\ errors = <<>>
    /\ scanner = ScannerNew(<<>>)

SpecCalls == InitCalls /\ [][Next]_vars

-----------------------------------------------------------------------------
(* The parser: recursive descent over the token vector. current counts the *)
(* tokens consumed, as in the source, so the token under the cursor is      *)
(* toks[cur + 1]. Every rule returns the cursor it leaves behind.           *)

POk(cur, node) ==
    [tag |-> "Ok", ok |-> TRUE, cur |-> cur, node |-> node, line |-> 0,
     message |-> ""]

\* LoxError::new_parser, with the cursor at the moment of the failure
PErr(cur, line, message) ==
    [tag |-> "ParserErrors", ok |-> FALSE, cur |-> cur, node |-> <<>>,
     line |-> line, message |-> message]

\* primary() at the end of input after a '(': advance() stays put and hands
\* back the same '(' again, so the descent never ends (stack overflow)
POverflow(cur) ==
    [tag |-> "Overflow", ok |-> FALSE, cur |-> cur, node |-> <<>>, line |-> 0,
     message |-> "stack overflow"]

MaxParams == 255

\* Parser::peek
Peek(toks, cur) == toks[cur + 1]

\* Parser::previous; tokens[current - 1] with current = 0 is an index panic
Previous(toks, cur) ==
    IF cur = 0 THEN [tok_typ |-> "IndexPanic", lexeme |-> "", line |-> 0]
    ELSE toks[cur]

\* Parser::is_at_end
IsAtEnd(toks, cur) == Peek(toks, cur).tok_typ = "EoF"

\* Parser::check; the PartialEq of TokenType compares the variant alone
Check(toks, cur, typ) == ~IsAtEnd(toks, cur) /\ Peek(toks, cur).tok_typ = typ

\* Parser::advance: the cursor afterwards
Advance(toks, cur) == IF ~IsAtEnd(toks, cur) THEN cur + 1 ELSE cur

\* Parser::revert
Revert(cur) == cur - 1

\* Parser::matches: whether one of the types is under the cursor (the cursor
\* then moves by one)
Matches(toks, cur, types) == \E typ \in types : Check(toks, cur, typ)

\* Parser::consume
Consume(toks, cur, typ, message) ==
    IF Check(toks, cur, typ)
    THEN POk(Advance(toks, cur), Previous(toks, Advance(toks, cur)))
    ELSE PErr(cur, Previous(toks, cur).line, message)

RECURSIVE ParseExpression(_, _)
RECURSIVE ParseAssignment(_, _)
RECURSIVE LeftAssoc(_, _, _)
RECURSIVE ParseLevel(_, _, _)
RECURSIVE ParseUnary(_, _)
RECURSIVE ParseCall(_, _)
RECURSIVE CallLoop(_, _)
RECURSIVE FinishCall(_, _, _)
RECURSIVE ArgumentsLoop(_, _, _)
RECURSIVE ArgumentsPasses(_, _, _)
RECURSIVE ArgumentsRest(_, _, _)
RECURSIVE ParsePrimary(_, _)
RECURSIVE ParseDeclaration(_, _)
RECURSIVE ParseFunction(_, _, _)
RECURSIVE ParseStatement(_, _)
RECURSIVE ParseBlock(_, _)
RECURSIVE BlockLoop(_, _, _)

\* the binary levels of the grammar, loosest first: or, and, equality,
\* comparison, term, factor
Levels ==
    << [types |-> {"Or"}, logical |-> TRUE],
       [types |-> {"And"}, logical |-> TRUE],
       [types |-> {"BangEqual", "EqualEqual"}, logical |-> FALSE],
       [types |-> {"Greater", "GreaterEqual", "Less", "LessEqual"}, logical |-> FALSE],
       [types |-> {"Minus", "Plus"}, logical |-> FALSE],
       [types |-> {"Slash", "Star"}, logical |-> FALSE] >>

\* Parser::or, and, equality, comparison, term, factor: the operand of the
\* level, then the while loop over its operators
ParseLevel(toks, cur, n) ==
    IF n > Len(Levels) THEN ParseUnary(toks, cur)
    ELSE LeftAssoc(toks, ParseLevel(toks, cur, n + 1), n)

\* the while self.matches(...) loop of a binary level
LeftAssoc(toks, expr, n) ==
    IF ~expr.ok THEN expr
    ELSE IF ~Matches(toks, expr.cur, Levels[n].types) THEN expr
    ELSE Let(Previous(toks, expr.cur + 1), LAMBDA operator :
         Let(ParseLevel(toks, expr.cur + 1, n + 1), LAMBDA right :
             IF ~right.ok THEN right
             ELSE LeftAssoc(toks,
                    POk(right.cur,
                        IF Levels[n].logical
                        THEN Logical(expr.node, operator, right.node)
                        ELSE Binary(expr.node, operator, right.node)),
                    n)))

\* Parser::expression
ParseExpression(toks, cur) == ParseAssignment(toks, cur)

\* Parser::assignment
ParseAssignment(toks, cur) ==
    Let(ParseLevel(toks, cur, 1), LAMBDA expr :
        IF ~expr.ok THEN expr
        ELSE IF ~Matches(toks, expr.cur, {"Equal"}) THEN expr
        ELSE Let(Previous(toks, expr.cur + 1), LAMBDA equals :
             Let(ParseAssignment(toks, expr.cur + 1), LAMBDA assignment :
                 IF ~assignment.ok THEN assignment
                 ELSE IF expr.node.node = "Variable"
                 THEN POk(assignment.cur,
                          Assignment(expr.node.name, assignment.node))
                 ELSE PErr(assignment.cur, equals.line,
                           "Invalid assignment target: " \o ExprToString(expr.node)))))

\* Parser::unary
ParseUnary(toks, cur) ==
    IF Matches(toks, cur, {"Bang", "Minus"})
    THEN Let(Previous(toks, cur + 1), LAMBDA operator :
         Let(ParseUnary(toks, cur + 1), LAMBDA right :
             IF ~right.ok THEN right
             ELSE POk(right.cur, Unary(operator, right.node))))
    ELSE ParseCall(toks, cur)

\* Parser::call
ParseCall(toks, cur) == CallLoop(toks, ParsePrimary(toks, cur))

CallLoop(toks, expr) ==
    IF ~expr.ok THEN expr
    ELSE IF Matches(toks, expr.cur, {"LeftParen"})
    THEN CallLoop(toks, FinishCall(toks, expr.cur + 1, expr.node))
    ELSE expr

\* one pass through the body of the do-while loop of finish_call over the
\* arguments; loop.more is the value of the loop condition, loop.r the
\* arguments so far or the result the function returns with
ArgumentsBody(toks, loop) ==
    IF ~loop.more THEN loop
    ELSE IF Len(loop.r.node) >= MaxParams
    THEN [more |-> FALSE,
          r |-> PErr(loop.r.cur, Peek(toks, loop.r.cur).line,
                     "Cannnot have more than 255 arguments")]
    ELSE Let(ParseExpression(toks, loop.r.cur), LAMBDA a :
             IF ~a.ok THEN [more |-> FALSE, r |-> a]
             ELSE IF Matches(toks, a.cur, {"Comma"})
             THEN [more |-> TRUE, r |-> POk(a.cur + 1, Append(loop.r.node, a.node))]
             ELSE [more |-> FALSE, r |-> POk(a.cur, Append(loop.r.node, a.node))])

\* n passes of the loop, the first half before the second
ArgumentsPasses(toks, n, loop) ==
    IF n = 1 THEN ArgumentsBody(toks, loop)
    ELSE ArgumentsRest(toks, n - (n \div 2), ArgumentsPasses(toks, n \div 2, loop))
\* the passes that follow the first half, if the loop goes on
ArgumentsRest(toks, n, half) ==
    IF ~half.more THEN half ELSE ArgumentsPasses(toks, n, half)

\* the do-while loop of finish_call: the length check ends it in at most
\* MaxParams + 1 passes
ArgumentsLoop(toks, cur, arguments) ==
    ArgumentsPasses(toks, MaxParams + 1, [more |-> TRUE, r |-> POk(cur, arguments)]).r

\* Parser::finish_call
FinishCall(toks, cur, callee) ==
    Let(IF ~Check(toks, cur, "RightParen")
        THEN ArgumentsLoop(toks, cur, <<>>)
        ELSE POk(cur, <<>>), LAMBDA arguments :
        IF ~arguments.ok THEN arguments
        ELSE Let(Consume(toks, arguments.cur, "RightParen",
                         "Expected ')' after arguments."), LAMBDA paren :
                 IF ~paren.ok THEN paren
                 ELSE POk(paren.cur, Call(callee, paren.node, arguments.node))))

\* Parser::primary
ParsePrimary(toks, cur) ==
    Let(IsAtEnd(toks, cur), LAMBDA at_end :
    Let(Advance(toks, cur), LAMBDA cur1 :
    Let(Previous(toks, cur1), LAMBDA tok :
        CASE tok.tok_typ \in {"False", "True", "Nil", "Number", "Str"} ->
                POk(cur1, Literal(tok))
          [] tok.tok_typ = "LeftParen" ->
                IF at_end THEN POverflow(cur1)
                ELSE Let(ParseExpression(toks, cur1), LAMBDA expr :
                         IF ~expr.ok THEN expr
                         ELSE Let(Consume(toks, expr.cur, "RightParen",
                                          "Expected ')' after expression"), LAMBDA close :
                                  IF ~close.ok THEN close
                                  ELSE POk(close.cur, Grouping(expr.node))))
          [] tok.tok_typ = "Identifier" -> POk(cur1, Variable(tok))
          [] OTHER -> PErr(cur1, tok.line, "Unexpected Token: " \o TokenDisplay(tok)))))

\* the body of the parameters loop without its length check
ParametersBodyNoLimit(toks, loop) ==
    IF ~loop.more THEN loop
    ELSE Let(Consume(toks, loop.r.cur, "Identifier",
               "Expected parameter name. Found "
                   \o TokenDisplay(Peek(toks, loop.r.cur))), LAMBDA param :
             IF ~param.ok THEN [more |-> FALSE, r |-> param]
             ELSE IF Matches(toks, param.cur, {"Comma"})
             THEN [more |-> TRUE,
                   r |-> POk(param.cur + 1, Append(loop.r.node, param.node))]
             ELSE [more |-> FALSE,
                   r |-> POk(param.cur, Append(loop.r.node, param.node))])

\* one pass through the body of the do-while loop of function() over the
\* parameters
ParametersBody(toks, loop) ==
    IF ~loop.more THEN loop
    ELSE IF Len(loop.r.node) >= MaxParams
    THEN [more |-> FALSE,
          r |-> PErr(loop.r.cur, Peek(toks, loop.r.cur).line,
                     "Cannot have more than 255 parameters.")]
    ELSE Let(Consume(toks, loop.r.cur, "Identifier",
               "Expected parameter name. Found "
                   \o TokenDisplay(Peek(toks, loop.r.cur))), LAMBDA param :
             IF ~param.ok THEN [more |-> FALSE, r |-> param]
             ELSE IF Matches(toks, param.cur, {"Comma"})
             THEN [more |-> TRUE,
                   r |-> POk(param.cur + 1, Append(loop.r.node, param.node))]
             ELSE [more |-> FALSE,
                   r |-> POk(param.cur, Append(loop.r.node, param.node))])

\* n passes of the loop, the first half before the second
RECURSIVE ParametersPasses(_, _, _)
RECURSIVE ParametersRest(_, _, _)
ParametersPasses(toks, n, loop) ==
    IF n = 1 THEN ParametersBody(toks, loop)
    ELSE ParametersRest(toks, n - (n \div 2), ParametersPasses(toks, n \div 2, loop))
\* the passes that follow the first half, if the loop goes on
ParametersRest(toks, n, half) ==
    IF ~half.more THEN half ELSE ParametersPasses(toks, n, half)

\* the do-while loop of function(): the length check ends it in at most
\* MaxParams + 1 passes
ParametersLoop(toks, cur, params) ==
    ParametersPasses(toks, MaxParams + 1, [more |-> TRUE, r |-> POk(cur, params)]).r

\* Parser::function
ParseFunction(toks, cur, kind) ==
    Let(Consume(toks, cur, "Identifier", "Expected " \o kind \o " name."), LAMBDA name :
        IF ~name.ok THEN name ELSE
    Let(Consume(toks, name.cur, "LeftParen",
                "Expected '(' after " \o kind \o " name."), LAMBDA open :
        IF ~open.ok THEN open ELSE
    Let(IF ~Check(toks, open.cur, "RightParen")
        THEN ParametersLoop(toks, open.cur, <<>>)
        ELSE POk(open.cur, <<>>), LAMBDA params :
        IF ~params.ok THEN params ELSE
    Let(Consume(toks, params.cur, "RightParen",
                "Expected ')' after parameters."), LAMBDA close :
        IF ~close.ok THEN close ELSE
    Let(Consume(toks, close.cur, "LeftBrace",
                "Expected '{' before {kind} body."), LAMBDA brace :
        IF ~brace.ok THEN brace ELSE
    Let(ParseBlock(toks, brace.cur), LAMBDA body :
        IF ~body.ok THEN body
        ELSE POk(body.cur, FunctionStmt(name.node, params.node, body.node))))))))

\* Parser::var_declaration
VarDeclaration(toks, cur) ==
    Let(Consume(toks, cur, "Identifier", "Expected variable name"), LAMBDA name :
        IF ~name.ok THEN name ELSE
    Let(IF Matches(toks, name.cur, {"Equal"})
        THEN Let(ParseExpression(toks, name.cur + 1), LAMBDA e :
                 IF e.ok THEN POk(e.cur, Some(e.node)) ELSE e)
        ELSE POk(name.cur, None), LAMBDA expr :
        IF ~expr.ok THEN expr ELSE
    Let(Consume(toks, expr.cur, "Semicolon",
                "Expected ';' after variable declaration"), LAMBDA semi :
        IF ~semi.ok THEN semi
        ELSE POk(semi.cur, VarStmt(name.node, expr.node)))))

\* Parser::expression_statement
ExpressionStatement(toks, cur) ==
    Let(ParseExpression(toks, cur), LAMBDA expr :
        IF ~expr.ok THEN expr ELSE
    Let(Consume(toks, expr.cur, "Semicolon", "Expected ';' after expression."), LAMBDA semi :
        IF ~semi.ok THEN semi ELSE POk(semi.cur, ExprStmt(expr.node))))

\* Parser::print_statement
PrintStatement(toks, cur) ==
    Let(ParseExpression(toks, cur), LAMBDA expr :
        IF ~expr.ok THEN expr ELSE
    Let(Consume(toks, expr.cur, "Semicolon", "Expected ';' after value."), LAMBDA semi :
        IF ~semi.ok THEN semi ELSE POk(semi.cur, PrintStmt(expr.node))))

\* Parser::return_statement
ReturnStatement(toks, cur) ==
    Let(Previous(toks, cur), LAMBDA keyword :
    Let(IF ~Check(toks, cur, "Semicolon")
        THEN Let(ParseExpression(toks, cur), LAMBDA e :
                 IF e.ok THEN POk(e.cur, Some(e.node)) ELSE e)
        ELSE POk(cur, None), LAMBDA value :
        IF ~value.ok THEN value ELSE
    Let(Consume(toks, value.cur, "Semicolon", "Expect ';' after return value."), LAMBDA semi :
        IF ~semi.ok THEN semi ELSE POk(semi.cur, ReturnStmt(keyword, value.node)))))

\* Parser::while_statement
WhileStatement(toks, cur) ==
    Let(Consume(toks, cur, "LeftParen", "Expected '(' after 'while'."), LAMBDA open :
        IF ~open.ok THEN open ELSE
    Let(ParseExpression(toks, open.cur), LAMBDA condition :
        IF ~condition.ok THEN condition ELSE
    Let(Consume(toks, condition.cur, "RightParen",
                "Expected ')' after condition"), LAMBDA close :
        IF ~close.ok THEN close ELSE
    Let(ParseStatement(toks, close.cur), LAMBDA body :
        IF ~body.ok THEN body
        ELSE POk(body.cur, WhileStmt(condition.node, body.node))))))

\* Parser::if_statement
IfStatement(toks, cur) ==
    Let(Consume(toks, cur, "LeftParen", "Expected '(' after 'if'."), LAMBDA open :
        IF ~open.ok THEN open ELSE
    Let(ParseExpression(toks, open.cur), LAMBDA condition :
        IF ~condition.ok THEN condition ELSE
    Let(Consume(toks, condition.cur, "RightParen",
                "Expected ')' after if condition."), LAMBDA close :
        IF ~close.ok THEN close ELSE
    Let(ParseStatement(toks, close.cur), LAMBDA then_branch :
        IF ~then_branch.ok THEN then_branch ELSE
    Let(IF Matches(toks, then_branch.cur, {"Else"})
        THEN Let(ParseStatement(toks, then_branch.cur + 1), LAMBDA e :
                 IF e.ok THEN POk(e.cur, Some(e.node)) ELSE e)
        ELSE POk(then_branch.cur, None), LAMBDA else_branch :
        IF ~else_branch.ok THEN else_branch
        ELSE POk(else_branch.cur,
                 IfStmt(condition.node, then_branch.node, else_branch.node)))))))

\* Parser::for_statement
ForStatement(toks, cur) ==
    Let(Consume(toks, cur, "LeftParen", "Expected '(' after 'for'."), LAMBDA open :
        IF ~open.ok THEN open ELSE
    Let(Advance(toks, open.cur), LAMBDA cur1 :
    Let(Previous(toks, cur1), LAMBDA tok :
        Let(
            CASE tok.tok_typ = "Semicolon" -> POk(cur1, None)
              [] tok.tok_typ = "Var" ->
                    Let(VarDeclaration(toks, cur1), LAMBDA d :
                        IF d.ok THEN POk(d.cur, Some(d.node)) ELSE d)
              [] OTHER ->
                    Let(ExpressionStatement(toks, Revert(cur1)), LAMBDA d :
                        IF d.ok THEN POk(d.cur, Some(d.node)) ELSE d), LAMBDA initializer :
        IF ~initializer.ok THEN initializer ELSE
    Let(IF Check(toks, initializer.cur, "Semicolon")
        THEN POk(initializer.cur, None)
        ELSE Let(ParseExpression(toks, initializer.cur), LAMBDA e :
                 IF e.ok THEN POk(e.cur, Some(e.node)) ELSE e), LAMBDA condition :
        IF ~condition.ok THEN condition ELSE
    Let(Consume(toks, condition.cur, "Semicolon",
                "Expect ';' after loop condition."), LAMBDA semi :
        IF ~semi.ok THEN semi ELSE
    Let(IF Check(toks, semi.cur, "Semicolon")
        THEN POk(semi.cur, None)
        ELSE Let(ParseExpression(toks, semi.cur), LAMBDA e :
                 IF e.ok THEN POk(e.cur, Some(e.node)) ELSE e), LAMBDA increment :
        IF ~increment.ok THEN increment ELSE
    Let(Consume(toks, increment.cur, "RightParen",
                "Expect ')' after for clauses."), LAMBDA close :
        IF ~close.ok THEN close ELSE
    Let(ParseStatement(toks, close.cur), LAMBDA body :
        IF ~body.ok THEN body ELSE
    Let(IF IsSome(increment.node)
        THEN BlockStmt(<<body.node, ExprStmt(Unwrap(increment.node))>>)
        ELSE body.node, LAMBDA body1 :
    Let(IF IsSome(condition.node)
        THEN WhileStmt(Unwrap(condition.node), body1)
        ELSE body1, LAMBDA body2 :
    Let(IF IsSome(initializer.node)
        THEN BlockStmt(<<Unwrap(initializer.node), body2>>)
        ELSE body2, LAMBDA body3 :
        POk(body.cur, body3)))))))))))))

\* the while loop of block()
BlockLoop(toks, cur, block_stmts) ==
    IF ~Check(toks, cur, "RightBrace") /\ ~IsAtEnd(toks, cur)
    THEN Let(ParseDeclaration(toks, cur), LAMBDA d :
             IF ~d.ok THEN d
             ELSE BlockLoop(toks, d.cur, Append(block_stmts, d.node)))
    ELSE Let(Consume(toks, cur, "RightBrace",
                     "Expected '}' at end of block."), LAMBDA close :
             IF ~close.ok THEN close ELSE POk(close.cur, block_stmts))

\* Parser::block
ParseBlock(toks, cur) == BlockLoop(toks, cur, <<>>)

\* Parser::statement
ParseStatement(toks, cur) ==
    Let(Advance(toks, cur), LAMBDA cur1 :
    Let(Previous(toks, cur1), LAMBDA tok :
        CASE tok.tok_typ = "Print" -> PrintStatement(toks, cur1)
          [] tok.tok_typ = "Return" -> ReturnStatement(toks, cur1)
          [] tok.tok_typ = "LeftBrace" ->
                Let(ParseBlock(toks, cur1), LAMBDA b :
                    IF ~b.ok THEN b ELSE POk(b.cur, BlockStmt(b.node)))
          [] tok.tok_typ = "If" -> IfStatement(toks, cur1)
          [] tok.tok_typ = "While" -> WhileStatement(toks, cur1)
          [] tok.tok_typ = "For" -> ForStatement(toks, cur1)
          [] OTHER -> ExpressionStatement(toks, Revert(cur1))))

\* Parser::declaration
ParseDeclaration(toks, cur) ==
    IF Matches(toks, cur, {"Var"}) THEN VarDeclaration(toks, cur + 1)
    ELSE IF Matches(toks, cur, {"Fun"}) THEN ParseFunction(toks, cur + 1, "function")
    ELSE ParseStatement(toks, cur)

\* the token types at which syncronize stops
StatementStarts ==
    {"Class", "Fun", "Var", "For", "If", "While", "Print", "Return"}

\* one pass through the while loop of syncronize; loop.more is the value
\* of the loop condition as long as no return was taken
SyncronizeBody(toks, loop) ==
    IF ~loop.more THEN loop
    ELSE IF IsAtEnd(toks, loop.cur) THEN [more |-> FALSE, cur |-> loop.cur]
    ELSE IF Previous(toks, loop.cur).tok_typ = "Semicolon"
    THEN [more |-> FALSE, cur |-> loop.cur]
    ELSE IF Peek(toks, loop.cur).tok_typ \in StatementStarts
    THEN [more |-> FALSE, cur |-> loop.cur]
    ELSE [more |-> TRUE, cur |-> Advance(toks, loop.cur)]

\* n passes of the loop, the first half before the second
RECURSIVE SyncronizePasses(_, _, _)
RECURSIVE SyncronizeRest(_, _, _)
SyncronizePasses(toks, n, loop) ==
    IF n = 1 THEN SyncronizeBody(toks, loop)
    ELSE SyncronizeRest(toks, n - (n \div 2), SyncronizePasses(toks, n \div 2, loop))
\* the passes that follow the first half, if the loop goes on
SyncronizeRest(toks, n, half) ==
    IF ~half.more THEN half ELSE SyncronizePasses(toks, n, half)

\* Parser::syncronize: the cursor it leaves behind; every pass but the last
\* advances, so the loop ends within Len(toks) + 1 passes
Syncronize(toks, cur) ==
    SyncronizePasses(toks, Len(toks) + 1, [more |-> TRUE, cur |-> cur]).cur

-----------------------------------------------------------------------------
(* Token sequences for the parser: a source is a sequence of fragments, one *)
(* per line; the fragments in WellFormed are complete declarations of the   *)
(* spec's grammar, the others are broken.                                   *)

K(tok_typ, line) == Keyword(tok_typ, line)

Fragments(line) ==
    << \* var x = 1;
       <<K("Var", line), Id("x", line), K("Equal", line), NumberToken(1, line),
         K("Semicolon", line)>>,
       \* print x;
       <<K("Print", line), Id("x", line), K("Semicolon", line)>>,
       \* fun f(a) { return a; }
       <<K("Fun", line), Id("f", line), K("LeftParen", line), Id("a", line),
         K("RightParen", line), K("LeftBrace", line), K("Return", line),
         Id("a", line), K("Semicolon", line), K("RightBrace", line)>>,
       \* if (x) print x; else x = 1;
       <<K("If", line), K("LeftParen", line), Id("x", line), K("RightParen", line),
         K("Print", line), Id("x", line), K("Semicolon", line), K("Else", line),
         Id("x", line), K("Equal", line), NumberToken(1, line), K("Semicolon", line)>>,
       \* while (x) x = 1;
       <<K("While", line), K("LeftParen", line), Id("x", line),
         K("RightParen", line), Id("x", line), K("Equal", line),
         NumberToken(1, line), K("Semicolon", line)>>,
       \* for (var i = 0; i < 1; i = 2) print i;
       <<K("For", line), K("LeftParen", line), K("Var", line), Id("i", line),
         K("Equal", line), NumberToken(0, line), K("Semicolon", line),
         Id("i", line), K("Less", line), NumberToken(1, line), K("Semicolon", line),
         Id("i", line), K("Equal", line), NumberToken(2, line),
         K("RightParen", line), K("Print", line), Id("i", line),
         K("Semicolon", line)>>,
       \* return;
       <<K("Return", line), K("Semicolon", line)>>,
       \* class A { }
       <<K("Class", line), Id("A", line), K("LeftBrace", line),
         K("RightBrace", line)>>,
       \* x = 1;
       <<Id("x", line), K("Equal", line), NumberToken(1, line), K("Semicolon", line)>>,
       \* { print x; }
       <<K("LeftBrace", line), K("Print", line), Id("x", line),
         K("Semicolon", line), K("RightBrace", line)>>,
       \* var;
       <<K("Var", line), K("Semicolon", line)>>,
       \* var x = ;
       <<K("Var", line), Id("x", line), K("Equal", line), K("Semicolon", line)>>,
       \* print x
       <<K("Print", line), Id("x", line)>>,
       \* ( x ;
       <<K("LeftParen", line), Id("x", line), K("Semicolon", line)>>,
       \* fun ( ) { }
       <<K("Fun", line), K("LeftParen", line), K("RightParen", line),
         K("LeftBrace", line), K("RightBrace", line)>>,
       \* for ( ; ; ; )
       <<K("For", line), K("LeftParen", line), K("Semicolon", line),
         K("Semicolon", line), K("Semicolon", line), K("RightParen", line)>>,
       \* x = 1 = 2;
       <<Id("x", line), K("Equal", line), NumberToken(1, line), K("Equal", line),
         NumberToken(2, line), K("Semicolon", line)>>,
       \* }
       <<K("RightBrace", line)>>,
       \* print (
       <<K("Print", line), K("LeftParen", line)>> >>

WellFormed == 1..10
MaxFragments == 3

\* for ( [var i = 0] ; [i < 1] ; [i = 2] ) print i;   with the clauses chosen
\* by init, cond and incr
ForFragment(init, cond, incr, line) ==
    <<K("For", line), K("LeftParen", line)>>
    \o (IF init
        THEN <<K("Var", line), Id("i", line), K("Equal", line), NumberToken(0, line)>>
        ELSE <<>>)
    \o <<K("Semicolon", line)>>
    \o (IF cond THEN <<Id("i", line), K("Less", line), NumberToken(1, line)>> ELSE <<>>)
    \o <<K("Semicolon", line)>>
    \o (IF incr THEN <<Id("i", line), K("Equal", line), NumberToken(2, line)>> ELSE <<>>)
    \o <<K("RightParen", line), K("Print", line), Id("i", line), K("Semicolon", line)>>

\* the for statements: fragment ForBase + c has the clauses whose bit is set
\* in c (1 initializer, 2 condition, 4 increment)
ForBase == Len(Fragments(1)) + 1
ForCombos == 0..7
HasInit(c) == (c % 2) = 1
HasCond(c) == ((c \div 2) % 2) = 1
HasIncr(c) == ((c \div 4) % 2) = 1

\* assignments; in the last three the '=' stands on the line after its
\* left side
AssignFragments(line) ==
    << \* a = b = c;
       <<Id("a", line), K("Equal", line), Id("b", line), K("Equal", line),
         Id("c", line), K("Semicolon", line)>>,
       \* a.b = 1;
       <<Id("a", line), K("Dot", line), Id("b", line), K("Equal", line),
         NumberToken(1, line), K("Semicolon", line)>>,
       \* 1
       \* = 2;
       <<NumberToken(1, line), K("Equal", line + 1), NumberToken(2, line + 1),
         K("Semicolon", line + 1)>>,
       \* (a)
       \* = 1;
       <<K("LeftParen", line), Id("a", line), K("RightParen", line),
         K("Equal", line + 1), NumberToken(1, line + 1), K("Semicolon", line + 1)>>,
       \* a()
       \* = 1;
       <<Id("a", line), K("LeftParen", line), K("RightParen", line),
         K("Equal", line + 1), NumberToken(1, line + 1), K("Semicolon", line + 1)>> >>
AssignBase == ForBase + 8

\* n copies of item separated by commas
ListOf(n, item, line) ==
    [j \in 1..((2 * n) - 1) |-> IF j % 2 = 1 THEN item ELSE K("Comma", line)]

\* fun f(p, .., p) { }   and   f(1, .., 1);   with n entries
FunFragment(n, line) ==
    <<K("Fun", line), Id("f", line), K("LeftParen", line)>>
    \o ListOf(n, Id("p", line), line)
    \o <<K("RightParen", line), K("LeftBrace", line), K("RightBrace", line)>>
CallFragment(n, line) ==
    <<Id("f", line), K("LeftParen", line)>>
    \o ListOf(n, NumberToken(1, line), line)
    \o <<K("RightParen", line), K("Semicolon", line)>>

\* the lists at the limit: LimitBase + j is a function declaration for
\* j < 2 and a call otherwise, with MaxParams entries for even j and one
\* more for odd j
LimitBase == AssignBase + Len(AssignFragments(1))
LimitFragment(j, line) ==
    IF j < 2 THEN FunFragment(MaxParams + (j % 2), line)
    ELSE CallFragment(MaxParams + (j % 2), line)

NumFragments == LimitBase + 3

\* fragment i of the catalogue, standing on the given line
Fragment(i, line) ==
    IF i < ForBase THEN Fragments(line)[i]
    ELSE IF i < AssignBase
    THEN ForFragment(HasInit(i - ForBase), HasCond(i - ForBase),
                     HasIncr(i - ForBase), line)
    ELSE IF i < LimitBase
    THEN AssignFragments(line)[(i - AssignBase) + 1]
    ELSE LimitFragment(i - LimitBase, line)

\* the fragments that sources longer than two lines are made of: the broken
\* ones and a declaration of each kind to resume with
Recovery == {1, 3, 6, 8, 11, 13, 14, 18, 19}

\* line k of the source text is line 2k - 1 of the file: a fragment may run
\* over onto the line that follows it
LineOf(k) == (2 * k) - 1

\* the tokens of lines k .. Len(src), then the EoF token the scanner appends
RECURSIVE TokensOf(_, _)
TokensOf(src, k) ==
    IF k > Len(src) THEN <<Token("EoF", "", 2 * Len(src))>>
    ELSE Fragment(src[k], LineOf(k)) \o TokensOf(src, k + 1)

\* Parser::new
InitParser ==
    /\ \E n \in 1..MaxFragments :
          \E src \in [1..n -> IF n > 2 THEN Recovery ELSE 1..NumFragments] :
             /\ source = src
             /\ tokens = TokensOf(src, 1)
    /\ current = 0
    /\ stmts = <<>>
    /\ errors = <<>>
    /\ scanner = ScannerNew(<<>>)
    /\ phase = "parse"
    /\ program = <<>>
    /\ pc = 1
    /\ outcome = NoOutcome
    /\ InitResolver
    /\ InitInterpreter

\* one iteration of the while loop of Parser::parse
ParseStep ==
    /\ phase = "parse"
    /\ ~IsAtEnd(tokens, current)
    /\ Let(ParseDeclaration(tokens, current), LAMBDA d :
       Let(IF d.tag = "ParserErrors" THEN Syncronize(tokens, d.cur)
           ELSE d.cur, LAMBDA synced :
           /\ current' = synced
           /\ stmts' = IF d.ok THEN Append(stmts, d.node) ELSE stmts
           /\ errors' = IF d.tag = "ParserErrors"
                        THEN Append(errors, NewParser(d.line, d.message))
                        ELSE errors
           /\ phase' = IF d.tag = "Overflow" THEN "done" ELSE phase
           /\ outcome' = IF d.tag = "Overflow"
                         THEN Failed("Panic", 0, d.message)
                         ELSE outcome
           /\ trace' = Append(trace,
                  [ev |-> "Decl", start |-> current, tag |-> d.tag,
                   end |-> d.cur, synced |-> synced, line |-> d.line,
                   message |-> d.message,
                   node |-> IF d.ok THEN Some(d.node) ELSE None])))
    /\ UNCHANGED <<scanner, program, pc, scopes, function_kind, class_kind, locals,
                   frames, instances, environment, out, tokens, source>>

\* the end of Parser::parse: Err(ParserErrors(errors)) or Ok(stmts)
ParseReturn ==
    /\ phase = "parse"
    /\ IsAtEnd(tokens, current)
    /\ phase' = "done"
    /\ outcome' = IF Len(errors) > 0
                  THEN [NoOutcome EXCEPT !.tag = "ParserErrors",
                                         !.code = Code("ParserErrors"),
                                         !.reported = Report("ParserErrors")]
                  ELSE [NoOutcome EXCEPT !.tag = "Ok"]
    /\ program' = IF Len(errors) > 0 THEN <<>> ELSE stmts
    /\ UNCHANGED <<scanner, pc, scopes, function_kind, class_kind, locals, frames,
                   instances, environment, out, trace, tokens, current, stmts,
                   errors, source>>

NextParser == ParseStep \/ ParseReturn

SpecParser == InitParser /\ [][NextParser]_vars

-----------------------------------------------------------------------------
(* The scanner run on its own: every text of up to MaxChars characters      *)
(* over ScanChars                                                            *)

MaxChars == 5
ScanChars == {"o", "r", "_", "1", "\"", "\n", "@"}

\* Scanner::new on a source text
InitScanner ==
    /\ \E n \in 0..MaxChars : \E src \in [1..n -> ScanChars] :
          scanner = ScannerNew(src)
    /\ phase = "scan"
    /\ program = <<>>
    /\ pc = 1
    /\ outcome = NoOutcome
    /\ InitResolver
    /\ InitInterpreter
    /\ tokens = <<>>
    /\ current = 0
    /\ stmts = <<>>
    /\ errors = <<>>
    /\ source = <<>>

\* one pass through the while loop of Scanner::scan_tokens; the '?' returns
\* the error of scan_token
ScanStep ==
    /\ phase = "scan"
    /\ ~ScannerIsAtEnd(scanner)
    /\ Let(ScanToken([scanner EXCEPT !.start = scanner.current]), LAMBDA r :
           /\ scanner' = r.sc
           /\ phase' = IF r.tag = "Ok" THEN phase ELSE "done"
           /\ outcome' = IF r.tag = "Ok" THEN outcome
                         ELSE Failed(r.tag, r.line, r.message)
           /\ trace' = Append(trace,
                  [ev |-> "Scan", start |-> scanner.current, tag |-> r.tag,
                   line |-> r.line, message |-> r.message]))
    /\ UNCHANGED <<program, pc, scopes, function_kind, class_kind, locals,
                   frames, instances, environment, out, tokens, current, stmts,
                   errors, source>>

\* the end of Scanner::scan_tokens: the EoF token and Ok(self.tokens)
ScanReturn ==
    /\ phase = "scan"
    /\ ScannerIsAtEnd(scanner)
    /\ scanner' = AddToken(scanner, Token("EoF", "", scanner.line))
    /\ tokens' = scanner'.tokens
    /\ phase' = "done"
    /\ outcome' = [NoOutcome EXCEPT !.tag = "Ok"]
    /\ UNCHANGED <<program, pc, scopes, function_kind, class_kind, locals,
                   frames, instances, environment, out, trace, current, stmts,
                   errors, source>>

NextScanner == ScanStep \/ ScanReturn

SpecScanner == InitScanner /\ [][NextScanner]_vars

-----------------------------------------------------------------------------
(* The environment alone: a chain of frames, the outermost one binding b,   *)
(* each frame binding a or not, and get, get_at, set and set_at called on   *)
(* the innermost frame for either name and every depth.                     *)

MaxFrames == 3    \* frames of the chain
MaxOps == 2       \* calls made on one chain

EnvNames == {"a", "b"}

\* frame i binds a to i when i is in bound; frame 1 binds b to 0
ChainOf(n, bound) ==
    [i \in 1..n |->
        [parent |-> i - 1,
         values |->
            Let(IF i = 1 THEN Insert(EmptyMap, "b", Number(Fraction(0, 1)))
                ELSE EmptyMap, LAMBDA m :
                IF i \in bound THEN Insert(m, "a", Number(Fraction(i, 1))) ELSE m)]]

InitEnv ==
    /\ \E n \in 1..MaxFrames : \E bound \in SUBSET (1..n) :
          /\ frames = ChainOf(n, bound)
          /\ environment = n
    /\ phase = "env"
    /\ program = <<>>
    /\ pc = 1
    /\ outcome = NoOutcome
    /\ InitResolver
    /\ locals = EmptyMap
    /\ instances = <<>>
    /\ out = <<>>
    /\ trace = <<>>
    /\ tokens = <<>>
    /\ current = 0
    /\ stmts = <<>>
    /\ errors = <<>>
    /\ source = <<>>
    /\ scanner = ScannerNew(<<>>)

\* the history entry of a call on the environment
EnvCall(op, token, depth, value, r, after) ==
    [ev |-> "Env", op |-> op, name |-> token.lexeme, line |-> token.line,
     depth |-> depth, value |-> value, env |-> environment, before |-> frames,
     after |-> after, ok |-> r.ok, frame |-> r.frame, err_line |-> r.line,
     message |-> r.message]

\* the value the next set writes
NextValue == Number(Fraction(10 + Len(trace), 1))

\* self.environment.borrow().get(token)
EnvGetStep ==
    /\ phase = "env"
    /\ Len(trace) < MaxOps
    /\ \E name \in EnvNames :
          Let(Id(name, Len(trace) + 1), LAMBDA token :
          Let(EnvGet(frames, environment, token), LAMBDA r :
              /\ trace' = Append(trace, [EnvCall("get", token, 0, r.v, r, frames)
                                            EXCEPT !.value = r.v])
              /\ frames' = frames))
    /\ UNCHANGED <<scanner, phase, program, pc, outcome, scopes, function_kind,
                   class_kind, locals, instances, environment, out,
                   tokens, current, stmts, errors, source>>

\* self.environment.borrow().get_at(token, depth)
EnvGetAtStep ==
    /\ phase = "env"
    /\ Len(trace) < MaxOps
    /\ \E name \in EnvNames : \E depth \in 0..MaxFrames :
          Let(Id(name, Len(trace) + 1), LAMBDA token :
          Let(EnvGetAt(frames, environment, token, depth), LAMBDA r :
              /\ trace' = Append(trace, EnvCall("get_at", token, depth, r.v, r, frames))
              /\ frames' = frames))
    /\ UNCHANGED <<scanner, phase, program, pc, outcome, scopes, function_kind,
                   class_kind, locals, instances, environment, out,
                   tokens, current, stmts, errors, source>>

\* self.environment.borrow_mut().set(token, value)
EnvSetStep ==
    /\ phase = "env"
    /\ Len(trace) < MaxOps
    /\ \E name \in EnvNames :
          Let(Id(name, Len(trace) + 1), LAMBDA token :
          Let(EnvSet(frames, environment, token, NextValue), LAMBDA r :
              /\ trace' = Append(trace, EnvCall("set", token, 0, NextValue, r, r.fr))
              /\ frames' = r.fr))
    /\ UNCHANGED <<scanner, phase, program, pc, outcome, scopes, function_kind,
                   class_kind, locals, instances, environment, out,
                   tokens, current, stmts, errors, source>>

\* self.environment.borrow_mut().set_at(token, value, depth)
EnvSetAtStep ==
    /\ phase = "env"
    /\ Len(trace) < MaxOps
    /\ \E name \in EnvNames : \E depth \in 0..MaxFrames :
          Let(Id(name, Len(trace) + 1), LAMBDA token :
          Let(EnvSetAt(frames, environment, token, NextValue, depth), LAMBDA r :
              /\ trace' = Append(trace,
                                 EnvCall("set_at", token, depth, NextValue, r, r.fr))
              /\ frames' = r.fr))
    /\ UNCHANGED <<scanner, phase, program, pc, outcome, scopes, function_kind,
                   class_kind, locals, instances, environment, out,
                   tokens, current, stmts, errors, source>>

NextEnv == EnvGetStep \/ EnvGetAtStep \/ EnvSetStep \/ EnvSetAtStep

SpecEnv == InitEnv /\ [][NextEnv]_vars

-----------------------------------------------------------------------------
(* Properties. trace is the history of what the resolver and the evaluator *)
(* did; the formulas below read it together with the heap.                  *)

Events(ev) == {i \in 1..Len(trace) : trace[i].ev = ev}
Top(calls) == calls[Len(calls)]
Same(a, b) == a.kind = b.kind /\ a = b
IsNaN(v) == v.kind = "Number" /\ v.n.fl = "nan"

\* the frame depth parent links above id, 0 when the chain is shorter
RECURSIVE Ancestor(_, _, _)
Ancestor(fr, id, depth) ==
    IF id = 0 \/ depth = 0 THEN id ELSE Ancestor(fr, fr[id].parent, depth - 1)

\* C1: a Get on an instance answers from the field map when the field is
\* there, and otherwise, when the instance's class or a class of its
\* superclass chain declares the name, yields that method bound to the
\* instance and does not fail.
GetWalksSuperclassChain ==
    \A i \in Events("Get") :
        LET e == trace[i]
        IN  /\ e.is_field => e.tag = "Ok"
            /\ (e.on_chain /\ ~e.is_field) =>
                  /\ e.tag = "Ok"
                  /\ e.v.kind = "Callable"
                  /\ ContainsKey(frames[e.v.closure].values, "this")
                  /\ frames[e.v.closure].values["this"] = ClassInstance(e.id)

\* C2: every invocation of an init method that completes without a runtime
\* error returns the instance bound as this, whether the body falls off the
\* end or executes a bare return at any depth; a class call yields the
\* instance it has just created.
InitReturnsThis ==
    /\ \A i \in Events("Call") :
          LET e == trace[i]
          IN  (e.is_initializer /\ e.tag = "Ok") =>
                  /\ e.this.kind = "ClassInstance"
                  /\ e.v.kind = "ClassInstance"
                  /\ e.v.id = e.this.id
    /\ \A i \in Events("New") :
          LET e == trace[i]
          IN  /\ e.tag = "Ok" => e.v = ClassInstance(e.id)
              /\ \A j \in Events("New") : j # i => trace[j].id # e.id

\* an init left by a nested return, an init that fell off its end, an init
\* invoked a second time on the same instance, and a class call that ended
InitReturnsThisWitness ==
    /\ \E i \in Events("Call") :
          /\ trace[i].is_initializer
          /\ trace[i].body_tag = "ReturnError"
          /\ trace[i].tag = "Ok"
    /\ \E i \in Events("Call") :
          /\ trace[i].is_initializer
          /\ trace[i].body_tag = "Ok"
          /\ trace[i].tag = "Ok"
    /\ \E i, j \in Events("Call") :
          /\ i < j
          /\ trace[i].is_initializer /\ trace[j].is_initializer
          /\ trace[i].tag = "Ok" /\ trace[j].tag = "Ok"
          /\ trace[i].this = trace[j].this
    /\ \E i \in Events("New") : trace[i].tag = "Ok"

\* C3: inside the body of a bound method, this evaluates to the instance the
\* method was obtained from, on every call of the bound value.
ThisIsReceiver ==
    \A i \in Events("Read") :
        LET e == trace[i]
        IN  (/\ e.name = "this"
             /\ e.calls # <<>>
             /\ ContainsKey(frames[Top(e.calls).closure].values, "this")) =>
                /\ e.frame = Top(e.calls).closure
                /\ e.v = frames[Top(e.calls).closure].values["this"]

\* C4: two closures created in one scope S share the frame of S: a variable
\* of S assigned through a call of one closure is read, by every later call
\* of a closure over S, from that same frame, with the value last assigned.
ClosuresShareFrame ==
    \A i \in Events("Write") : \A j \in Events("Read") :
        LET w == trace[i]
            r == trace[j]
        IN  (/\ i < j
             /\ w.name = r.name
             /\ w.calls # <<>>
             /\ r.calls # <<>>
             /\ Top(w.calls).closure = Top(r.calls).closure
             /\ Top(w.calls).closure # GlobalEnv
             /\ w.frame = Top(w.calls).closure
             /\ \A k \in Events("Write") :
                   (i < k /\ k < j) =>
                       ~(trace[k].name = w.name /\ trace[k].frame = w.frame)) =>
                /\ r.frame = w.frame
                /\ r.v = w.v

\* C5: a reference inside a function body that was answered by a variable
\* outside the function on one call is answered by the same variable on
\* every later call of that function, whatever has been declared, read or
\* assigned in between.
ReferenceKeepsItsBinding ==
    \A i \in Events("Read") : \A j \in Events("Read") :
        LET a == trace[i]
            b == trace[j]
        IN  (/\ i < j
             /\ a.name = b.name
             /\ a.line = b.line
             /\ a.calls # <<>>
             /\ b.calls # <<>>
             /\ Top(a.calls).closure = Top(b.calls).closure
             /\ Top(a.calls).name = Top(b.calls).name
             /\ a.frame # 0
             /\ a.frame <= Top(a.calls).closure) =>
                b.frame = a.frame

\* C6: for a reference to a name that more than one enclosing local scope
\* declares, the depth the resolver records is the distance to the innermost
\* declaring scope, and the evaluator reads the reference from the frame at
\* that distance.
InnermostScopeWins ==
    \A i \in Events("Resolve") :
        LET s == trace[i]
        IN  s.declaring >= 2 =>
                /\ s.recorded = s.innermost
                /\ \A j \in Events("Read") :
                      LET r == trace[j]
                      IN  (r.name = s.name /\ r.line = s.line) =>
                              r.frame = Ancestor(frames, r.from, s.innermost)

\* C7: == is reflexive for every value but NaN (functions, classes and
\* instances included, by identity), symmetric, false for operands of
\* differing kinds, and != is its negation.
EqualityLaws ==
    \A i \in Events("Eq") :
        LET e == trace[i]
        IN  /\ (~e.negated /\ Same(e.left, e.right) /\ ~IsNaN(e.left)) => e.result
            /\ (~e.negated /\ e.left.kind # e.right.kind) => ~e.result
            /\ \A j \in Events("Eq") :
                  LET d == trace[j]
                  IN  /\ (/\ ~e.negated /\ ~d.negated
                          /\ Same(e.left, d.right) /\ Same(e.right, d.left)) =>
                              e.result = d.result
                      /\ (/\ e.negated /\ ~d.negated
                          /\ Same(e.left, d.left) /\ Same(e.right, d.right)) =>
                              e.result = ~d.result

\* C8: a return signal raised in a function body becomes the result of the
\* call that runs that body and of no other call, and never reaches the
\* top-level loop or the error report and exit code.
ReturnStopsAtItsCall ==
    /\ \A i \in Events("Call") :
          LET e == trace[i]
          IN  e.body_tag = "ReturnError" =>
                  /\ e.tag = "Ok"
                  /\ e.raised = e.depth
    /\ \A i \in Events("Stmt") :
          trace[i].tag = "ReturnError" => trace[i].depth >= 1
    /\ outcome.tag # "ReturnError"

\* a return that left a block inside an if inside a while, in a call made
\* from another call that itself returned, in a program that ran to its end
ReturnStopsAtItsCallWitness ==
    /\ phase = "done"
    /\ outcome.tag = "Ok"
    /\ \E i, j \in Events("Call") :
          /\ i < j
          /\ trace[i].name = "inner" /\ trace[i].depth = 2
          /\ trace[i].body_tag = "ReturnError"
          /\ trace[j].name = "outer" /\ trace[j].depth = 1
          /\ trace[j].body_tag = "ReturnError"
    /\ \E i \in Events("Stmt") :
          trace[i].node = "While" /\ trace[i].tag = "ReturnError"

\* C9: when the execution of a statement ends, normally, with a runtime
\* error or with a return signal, the current environment is the frame it
\* was when the statement began.
EnvironmentRestored ==
    \A i \in Events("Stmt") :
        trace[i].tag \in {"Ok", "RuntimeError", "ReturnError"} =>
            trace[i].after = trace[i].before

\* a block left by a return signal, a block left by a runtime error inside a
\* function body, and a class declaration that pushed a super frame
EnvironmentRestoredWitness ==
    /\ \E i \in Events("Stmt") :
          trace[i].node = "Block" /\ trace[i].tag = "ReturnError"
    /\ \E i \in Events("Stmt") :
          /\ trace[i].node = "Block" /\ trace[i].tag = "RuntimeError"
          /\ trace[i].depth >= 1
    /\ \E i \in Events("Stmt") :
          /\ trace[i].node = "Class" /\ trace[i].tag = "Ok"
          /\ \E k \in 1..Len(frames) :
                /\ ContainsKey(frames[k].values, "super")
                /\ frames[k].parent = trace[i].before

\* the number of tokens before line k of the source
RECURSIVE StartOf(_, _)
StartOf(src, k) ==
    IF k = 1 THEN 0
    ELSE StartOf(src, k - 1) + Len(Fragment(src[k - 1], LineOf(k - 1)))

\* a cursor just after a ';', at a token that begins a statement, or at the
\* end of the input
SyncPoint(cur) ==
    \/ IsAtEnd(tokens, cur)
    \/ Previous(tokens, cur).tok_typ = "Semicolon"
    \/ Peek(tokens, cur).tok_typ \in StatementStarts

\* C10: a declaration that fails to parse has its error collected and the
\* parser skips to the first cursor just after a ';' or at a token that
\* begins a statement; a well-formed declaration that starts where the
\* parser resumes is parsed without a further error; parse returns the
\* collected errors in source order, and no statement list.
PanicModeRecovery ==
    /\ \A i \in Events("Decl") :
          LET e == trace[i]
          IN  /\ e.tag = "ParserErrors" =>
                    /\ SyncPoint(e.synced)
                    /\ \A q \in e.end..(e.synced - 1) : ~SyncPoint(q)
              /\ (/\ i > 1
                  /\ trace[i - 1].tag = "ParserErrors"
                  /\ \E k \in 1..Len(source) :
                        /\ StartOf(source, k) = e.start
                        /\ source[k] \in WellFormed) =>
                    e.tag = "Ok"
    /\ LET failed == SelectSeq(trace, LAMBDA e : e.tag = "ParserErrors")
       IN  /\ errors = [k \in 1..Len(failed) |->
                            NewParser(failed[k].line, failed[k].message)]
           /\ \A k \in 1..(Len(errors) - 1) : errors[k].line <= errors[k + 1].line
    /\ (phase = "done" /\ outcome.tag # "Panic" /\ Len(errors) > 0) =>
          /\ outcome.tag = "ParserErrors"
          /\ program = <<>>

\* the line k of the source that holds fragment f at token index start
FragmentAt(start, f) ==
    \E k \in 1..Len(source) : source[k] = f /\ StartOf(source, k) = start

\* the statements of a block that may leave out an absent part: the node
\* itself when it is no block
StmtsOf(stmt) == IF stmt.node = "Block" THEN stmt.stmts ELSE <<stmt>>

\* the loop of a desugared for statement: what follows the initializer
ForLoop(stmt, init, line) ==
    IF init
    THEN IF /\ stmt.node = "Block"
            /\ Len(stmt.stmts) = 2
            /\ stmt.stmts[1] = VarStmt(Id("i", line), Some(Num(0, line)))
         THEN Some(stmt.stmts[2]) ELSE None
    ELSE IF Len(StmtsOf(stmt)) = 1 THEN Some(StmtsOf(stmt)[1]) ELSE None

\* While(cond or true, Block(body, Expression(incr)?))
ForWhile(loop, cond, incr, line) ==
    /\ loop.node = "While"
    /\ IF cond
       THEN loop.condition = Binary(V("i", line), K("Less", line), Num(1, line))
       ELSE /\ loop.condition.node = "Literal"
            /\ loop.condition.value.tok_typ = "True"
    /\ StmtsOf(loop.loop_body) =
          <<PrintStmt(V("i", line))>>
          \o (IF incr
              THEN <<ExprStmt(Assignment(Id("i", line), Num(2, line)))>>
              ELSE <<>>)

\* C11: for every combination of present and absent clauses the for
\* statement parses without error into Block(init?, While(cond or true,
\* Block(body, Expression(incr)?))); an absent part may be left out of the
\* block that would hold it.
ForClausesDesugared ==
    \A i \in Events("Decl") : \A c \in ForCombos :
       LET e == trace[i]
           line == tokens[e.start + 1].line
       IN  FragmentAt(e.start, ForBase + c) =>
              /\ e.tag = "Ok"
              /\ IsSome(ForLoop(Unwrap(e.node), HasInit(c), line))
              /\ ForWhile(Unwrap(ForLoop(Unwrap(e.node), HasInit(c), line)),
                          HasCond(c), HasIncr(c), line)

\* the statement the parser made of fragment f, wherever the fragment was
\* parsed as a declaration of its own
ParsedAs(f, stmt(_)) ==
    \A i \in Events("Decl") :
       FragmentAt(trace[i].start, f) =>
          trace[i].tag = "Ok" /\ trace[i].node = Some(stmt(tokens[trace[i].start + 1].line))

\* fragment f is refused with a parser error on the line after its first
RefusedAtEquals(f) ==
    \A i \in Events("Decl") :
       FragmentAt(trace[i].start, f) =>
          /\ trace[i].tag = "ParserErrors"
          /\ trace[i].line = tokens[trace[i].start + 1].line + 1

\* C12: in lhs = rhs a Variable left side becomes Assignment(name, rhs), a
\* Get left side becomes Set(obj, name, rhs), any other left side is a
\* parser error on the line of the '=' token, and a = b = c is
\* Assignment(a, Assignment(b, c)).
AssignmentRewritesTarget ==
    /\ ParsedAs(9, LAMBDA l : ExprStmt(Assignment(Id("x", l), Num(1, l))))
    /\ ParsedAs(AssignBase, LAMBDA l :
          ExprStmt(Assignment(Id("a", l), Assignment(Id("b", l), V("c", l)))))
    /\ ParsedAs(AssignBase + 1, LAMBDA l :
          ExprStmt(SetExpr(V("a", l), Id("b", l), Num(1, l))))
    /\ \A f \in (AssignBase + 2)..(AssignBase + 4) : RefusedAtEquals(f)

\* the declarations parsed up to event i that failed
FailedUpTo(i) == {j \in Events("Decl") : j <= i /\ trace[j].tag = "ParserErrors"}

\* the error of the failed declaration of event i stands in the parser's
\* error list, after the errors of the declarations that failed before it
Collected(i) ==
    /\ Cardinality(FailedUpTo(i)) <= Len(errors)
    /\ errors[Cardinality(FailedUpTo(i))] = NewParser(trace[i].line, trace[i].message)

\* the parser went on after event i: it stands where syncronize left it, or
\* has parsed its next declaration from there
WentOn(i) ==
    \/ IsAtEnd(tokens, trace[i].synced)
    \/ i = Len(trace) /\ phase = "parse" /\ current = trace[i].synced
    \/ i < Len(trace) /\ trace[i + 1].ev = "Decl" /\ trace[i + 1].start = trace[i].synced

\* a declaration that was refused for a list longer than MaxParams
OverLimit(i) ==
    /\ trace[i].ev = "Decl"
    /\ trace[i].tag = "ParserErrors"
    /\ \/ /\ FragmentAt(trace[i].start, LimitBase + 1)
          /\ trace[i].message = "Cannot have more than 255 parameters."
       \/ /\ FragmentAt(trace[i].start, LimitBase + 3)
          /\ trace[i].message = "Cannnot have more than 255 arguments"

LineAt(src, p) == 1 + Cardinality({k \in 1..p : src[k] = "\n"})

\* the token scanned from index p is a string that no quote closes
Unterminated(src, p) ==
    /\ src[p + 1] = "\""
    /\ \A k \in (p + 2)..Len(src) : src[k] # "\""

\* C14: an unterminated string literal makes the scanner fail with a
\* scanner error whose line is the line of the opening quote, however many
\* newlines stand between the quote and the end of the input.
UnterminatedStringLine ==
    \A i \in Events("Scan") :
       Unterminated(scanner.source, trace[i].start) =>
          /\ trace[i].tag = "ScannerError"
          /\ trace[i].message = "Unterminated String"
          /\ trace[i].line = LineAt(scanner.source, trace[i].start)

\* the characters no token of the language begins with
Unrecognized == {"@"}

\* C15: an unrecognized character is reported as a scanner error at the
\* current line and the scanning loop goes on with the next character: the
\* characters after it are scanned too.
UnexpectedCharacterContinues ==
    \A i \in Events("Scan") :
       scanner.source[trace[i].start + 1] \in Unrecognized =>
          /\ trace[i].tag = "ScannerError"
          /\ trace[i].line = LineAt(scanner.source, trace[i].start)
          /\ phase = "done" => ScannerIsAtEnd(scanner)

\* [A-Za-z_] and [A-Za-z0-9_]
IdentifierStart(c) == c \in AsciiLetters \/ c = "_"
IdentifierPart(c) == IdentifierStart(c) \/ IsAsciiDigit(c)

\* a maximal run [A-Za-z_][A-Za-z0-9_]* begins at position i of the text:
\* only digits stand between it and the last character outside [A-Za-z0-9_]
RunStart(src, i) ==
    /\ IdentifierStart(src[i])
    /\ \A k \in 1..(i - 1) :
          (\A m \in k..(i - 1) : IdentifierPart(src[m])) => IsAsciiDigit(src[k])
\* the position after its last character
RunEnd(src, i) ==
    CHOOSE j \in i..Len(src) :
       /\ \A m \in i..j : IdentifierPart(src[m])
       /\ j < Len(src) => ~IdentifierPart(src[j + 1])

\* the token of the run that begins at position i
RunToken(src, i) ==
    LET text == Substring(src, i - 1, RunEnd(src, i))
    IN  IF \E k \in ReservedWords : Lexeme(k) = text
        THEN Token(CHOOSE k \in ReservedWords : Lexeme(k) = text, text,
                   LineAt(src, i - 1))
        ELSE Token("Identifier", text, LineAt(src, i - 1))

\* C16: in a text of identifier characters and newlines every maximal run
\* [A-Za-z_][A-Za-z0-9_]* is scanned as one token, the keyword when the run
\* is a reserved word and else an Identifier with the text of the run; a
\* run that begins with '_' is an Identifier.
IdentifierRuns ==
    (/\ phase = "done"
     /\ \A k \in 1..Len(scanner.source) :
           IdentifierPart(scanner.source[k]) \/ scanner.source[k] = "\n") =>
       /\ outcome.tag = "Ok"
       /\ \A i \in 1..Len(scanner.source) :
             RunStart(scanner.source, i) =>
                \E k \in 1..Len(tokens) : tokens[k] = RunToken(scanner.source, i)
       /\ Cardinality({k \in 1..Len(tokens) :
                          tokens[k].tok_typ \notin {"Number", "EoF"}})
             = Cardinality({i \in 1..Len(scanner.source) :
                               RunStart(scanner.source, i)})


-----------------------------------------------------------------------------
(* The resolver's checks, read off the text of a nesting program: the chain  *)
(* of wrappers around a site says which function body and which class        *)
(* declaration enclose it.                                                   *)

\* the wrappers around the site on the given line
Enclosing(line) ==
    IF line = InnerLine THEN source.ws ELSE SubSeq(source.ws, 1, Len(source.ws) - 1)

\* the site the program has on the given line
SiteOn(line) == IF line = InnerLine THEN source.inner ELSE source.after

Last(S) == CHOOSE i \in S : \A j \in S : j <= i

\* the innermost function body of a chain of wrappers: "None" without one
InnermostFunction(ws) ==
    LET bodies == {i \in 1..Len(ws) : ws[i] # "Block"}
    IN  IF bodies = {} THEN "None"
        ELSE CASE ws[Last(bodies)] \in {"Fun", "FunInit"} -> "Function"
               [] ws[Last(bodies)] \in {"Init", "SubInit"} -> "Initializer"
               [] OTHER -> "Method"

\* the innermost class declaration of a chain of wrappers: "None" without one
InnermostClass(ws) ==
    LET classes == {i \in 1..Len(ws) :
                        ws[i] \in {"Method", "Init", "SubMethod", "SubInit"}}
    IN  IF classes = {} THEN "None"
        ELSE IF ws[Last(classes)] \in {"SubMethod", "SubInit"} THEN "SubClass"
        ELSE "Class"

Checks(node) == {i \in Events("Site") : trace[i].node = node}

\* C17: the resolver's function state follows the nesting of function bodies:
\* at every return statement it is the kind of the innermost enclosing
\* function body (none, function, method, initializer), whatever functions
\* were declared and left before it; a bare return is rejected exactly when
\* no function body encloses it, a return with a value exactly when none
\* encloses it or the innermost one is an init method; and when the whole
\* program is resolved the state is none again.
FunctionKindDiscipline ==
    source.kind = "nest" =>
        /\ \A i \in Checks("Return") :
              LET e == trace[i]
                  kind == InnermostFunction(Enclosing(e.line))
              IN  /\ e.function_kind = kind
                  /\ SiteOn(e.line) = "return" => (e.ok <=> kind # "None")
                  /\ SiteOn(e.line) = "return value" =>
                        (e.ok <=> kind \notin {"None", "Initializer"})
                  /\ ~e.ok => /\ phase = "done"
                              /\ outcome.tag = "ResolutionError"
                              /\ outcome.line = e.line
        /\ phase = "run" => function_kind = "None"

\* an initializer that declares a function: return 1; is accepted inside the
\* function and rejected after it, back in the initializer
FunctionKindDisciplineWitness ==
    /\ source.kind = "nest"
    /\ source.ws = <<"Init", "Fun">>
    /\ source.inner = "return value"
    /\ source.after = "return value"
    /\ phase = "done"
    /\ outcome.message = "Cannot return a value from an initializer"
    /\ \E i, j \in Checks("Return") :
          /\ i < j
          /\ trace[i].line = InnerLine /\ trace[i].ok
          /\ trace[i].function_kind = "Function"
          /\ trace[j].line = AfterLine /\ ~trace[j].ok
          /\ trace[j].function_kind = "Initializer"


\* the first wrapper of the program that is a class naming itself as superclass
FirstSelf == Last({k \in 1..Len(source.ws) :
                      source.ws[k] = "Self"
                      /\ \A j \in 1..(k - 1) : source.ws[j] # "Self"})

\* C18: the resolver's class state follows the nesting of class declarations:
\* at every this and super it is the kind of the innermost enclosing class
\* (none, class, subclass), whatever classes were declared and left before
\* it; this is rejected exactly when no class encloses it, super exactly when
\* none encloses it or the innermost one has no superclass; a class that
\* names itself as superclass is rejected; and when the whole program is
\* resolved the state is none again.
ClassKindDiscipline ==
    source.kind = "nest" =>
        /\ \A i \in Checks("This") \cup Checks("Super") :
              LET e == trace[i]
                  kind == InnermostClass(Enclosing(e.line))
              IN  /\ e.class_kind = kind
                  /\ e.node = "This" => (e.ok <=> kind # "None")
                  /\ e.node = "Super" => (e.ok <=> kind = "SubClass")
                  /\ ~e.ok => /\ phase = "done"
                              /\ outcome.tag = "ResolutionError"
                              /\ outcome.line = e.line
        /\ (phase \in {"run", "done"} /\ \E k \in 1..Len(source.ws) : source.ws[k] = "Self")
              => /\ phase = "done"
                 /\ outcome.tag = "ResolutionError"
                 /\ outcome.message = "A class can't inherit from itself."
                 /\ outcome.line = FirstSelf + 1
                 /\ Checks("This") \cup Checks("Super") \cup Checks("Return") = {}
        /\ phase = "run" => class_kind = "None"

\* a method of a subclass that declares a class without superclass: this is
\* accepted inside the inner class, and super after it, back in the subclass
ClassKindDisciplineWitness ==
    /\ source.kind = "nest"
    /\ source.ws = <<"SubMethod", "Method">>
    /\ source.inner = "this"
    /\ source.after = "super"
    /\ phase = "done"
    /\ outcome.tag = "Ok"
    /\ \E i \in Checks("This") : \E j \in Checks("Super") :
          /\ i < j
          /\ trace[i].line = InnerLine /\ trace[i].ok
          /\ trace[i].class_kind = "Class"
          /\ trace[j].line = AfterLine /\ trace[j].ok
          /\ trace[j].class_kind = "SubClass"


\* the second declaration of a stands in the scope of the first, and that
\* scope is not the global one
SameLocalScope == source.where = "same" /\ source.place # "Global"

\* C19: declaring a name (variable, function, class, parameter) that the
\* innermost scope already holds is a resolution error unless that scope is
\* the global one; declaring it again in a block or function inside the
\* scope is accepted; and the resolver stops at the first rejected
\* declaration: nothing is checked after it, its line is the one reported,
\* and the interpreter does not run.
RedeclarationRule ==
    source.kind = "decl" =>
        /\ \A i \in Checks("Declare") :
              LET e == trace[i]
              IN  /\ (e.name = "a" /\ e.line = FirstLine) => e.ok
                  /\ (e.name = "a" /\ e.line = SecondLine)
                        => (e.ok <=> ~SameLocalScope)
                  /\ e.name = "b" => (e.ok <=> e.line = TailLine)
                  /\ ~e.ok => /\ i = Len(trace)
                              /\ phase = "done"
                              /\ outcome.tag = "ResolutionError"
                              /\ outcome.line = e.line
                              /\ outcome.message =
                                    "A variable with name '" \o e.name
                                        \o "' already exists within this scope"
        /\ outcome.tag = "ResolutionError"
              => /\ out = <<>>
                 /\ \A k \in 1..Len(trace) : trace[k].ev \in {"Site", "Resolve"}
                 /\ \E i \in Checks("Declare") : ~trace[i].ok

\* a function whose body declares its parameter again, followed by a block
\* that declares b twice: the resolver stopped at the body's declaration
RedeclarationRuleWitness ==
    /\ source.kind = "decl"
    /\ source.place = "Fun"
    /\ source.first = "param"
    /\ source.second = "var"
    /\ source.where = "same"
    /\ source.tail
    /\ phase = "done"
    /\ outcome.tag = "ResolutionError"
    /\ outcome.line = SecondLine
    /\ \E i, j \in Checks("Declare") :
          /\ trace[i].name = "a" /\ trace[i].line = FirstLine /\ trace[i].ok
          /\ trace[j].name = "a" /\ trace[j].line = SecondLine /\ ~trace[j].ok
          /\ trace[i].depth = trace[j].depth
    /\ \A i \in Checks("Declare") : trace[i].name # "b"


-----------------------------------------------------------------------------
(* The call expression, read off the text of the call programs.             *)

\* the number of parameters the declaration of a callee of the call programs
\* has: a class has those of init, its own or its superclass's, else none
Declared(callee) ==
    CASE callee.kind = "Callable" -> IF callee.name.lexeme = "f2" THEN 2 ELSE 0
      [] callee.kind = "Class" -> IF callee.cname \in {"A", "B"} THEN 1 ELSE 0
      [] OTHER -> 0

\* the call of history entry i must be refused: its callee is no function,
\* class or native, or the number of arguments is not the declared one
MustRefuse(i) ==
    \/ trace[i].callee.kind \notin {"Callable", "Class", "NativeFunc"}
    \/ Declared(trace[i].callee) # Len(trace[i].args)

\* at a call site (c = callee)(t = 1, .., t = n) the callee was evaluated
\* before the arguments, the arguments from left to right, and all of them
\* before the callee was checked
EvaluatedInOrder(i) ==
    LET e == trace[i]
        n == Len(e.args)
    IN  /\ e.at >= n + 2
        /\ trace[e.at - n - 1].ev = "Read"
        /\ trace[e.at - n - 1].v = e.callee
        /\ trace[e.at - n].ev = "Write"
        /\ trace[e.at - n].name = "c"
        /\ trace[e.at - n].v = e.callee
        /\ \A j \in 1..n :
              /\ trace[e.at - n + j].ev = "Write"
              /\ trace[e.at - n + j].name = "t"
              /\ trace[e.at - n + j].line = e.line
              /\ trace[e.at - n + j].v = Number(Fraction(j, 1))
              /\ e.args[j] = Number(Fraction(j, 1))

\* the call failed with a runtime error at the closing paren, and nothing
\* ran between the check and the failure: no history entry, no output, no
\* new instance, no new or changed frame
RefusedAtParen(i) ==
    LET e == trace[i]
    IN  /\ e.tag = "RuntimeError"
        /\ e.err_line = e.line
        /\ i = e.at + 1
        /\ e.instances_after = e.instances
        /\ e.frames_after = e.frames
        /\ e.out_after = e.out
        /\ phase = "done"
        /\ outcome.tag = "RuntimeError"
        /\ outcome.line = e.line

\* C20: a call evaluates the callee, then the arguments left to right, and
\* only then checks the callee; a callee that is no function, class or native,
\* or a number of arguments other than the callee's arity (for a class that
\* of init on its superclass chain, else 0), makes the call fail with a
\* runtime error at the line of the closing paren, with no part of the body
\* executed and no instance or frame created.
CallContract ==
    \A i \in Events("CallSite") :
        /\ trace[i].line >= CallLine(1, 0) => EvaluatedInOrder(i)
        /\ MustRefuse(i) => RefusedAtParen(i)


-----------------------------------------------------------------------------
(* super, read off the text of the programs ProgS2 and ProgSuper: the line  *)
(* of a super expression names the method that holds it.                    *)

\* the line of the declaration super.m must yield at the site on the given
\* line, 0 when no class above the declaring class has m
SuperTarget(line) ==
    CASE line = 4 -> 1      \* B.test of ProgS2: super.method is A.method
      [] line = 24 -> 21    \* B.test: super.method is A.method
      [] line = 27 -> 24    \* C.test2: super.test is B.test
      [] line = 28 -> 22    \* C.far: super.other is A.other, two classes up
      [] OTHER -> 0         \* B.miss: super.nope

\* C21: super.m inside a method declared in a class looks m up from the
\* superclass of that class on, whatever the class of this, and yields it
\* bound to the current this; without an m on that chain it is a runtime
\* error; and C().test() of scenario S2 prints A's method.
SuperStartsAboveDeclaringClass ==
    /\ \A i \in Events("Super") :
          LET e == trace[i]
          IN  IF SuperTarget(e.line) = 0
              THEN e.tag = "RuntimeError" /\ e.err_line = e.line
              ELSE /\ e.tag = "Ok"
                   /\ e.v.kind = "Callable"
                   /\ e.v.name.lexeme = e.method
                   /\ e.v.name.line = SuperTarget(e.line)
                   /\ e.this.kind = "ClassInstance"
                   /\ e.bound = e.this
    /\ (program = ProgS2 \o <<DriversS2[1]>> /\ phase = "done")
          => outcome.tag = "Ok" /\ out = <<"A method">>


\* the text print must write for a value of the print programs
Rendering(v) ==
    CASE v.kind = "Number" ->
            (CASE v.n = Fraction(7, 1) -> "7"
               [] v.n = Fraction(3, 2) -> "1.5"
               [] v.n = Fraction(-2, 1) -> "-2"
               [] OTHER -> "?")
      [] v.kind = "Nil" -> "nil"
      [] v.kind = "Bool" -> IF v.b THEN "true" ELSE "false"
      [] v.kind = "String" -> v.s
      [] v.kind = "Callable" -> "<fn " \o v.name.lexeme \o ">"
      [] v.kind = "Class" -> "<class " \o v.cname \o ">"
      [] v.kind = "ClassInstance" -> instances[v.id].base.cname \o " instance"
      [] OTHER -> "?"

PrintsOf(prog) == {i \in Events("Print") : program[1] = prog[1]}

\* C22: print writes a number without .0 when it has no fractional part, nil
\* for Nil, true / false in lower case, a string's contents without quotes,
\* <fn name> for a function, <class Name> for a class and Name instance for
\* an instance; and the text is the line appended to the output.
PrintRendering ==
    \A i \in PrintsOf(ProgPrint) :
        /\ trace[i].text = Rendering(trace[i].v)
        /\ \E k \in 1..Len(out) : out[k] = trace[i].text


\* the depth the resolver computed for the site of a Resolve entry: -1 when
\* no local scope declares the name
Computed(e) == IF e.declaring = 0 THEN -1 ELSE e.recorded

\* the depth the evaluator finds for a site with the given key: -1 when the
\* table has no entry and the site is looked up in the global frame
LookedUp(key) == IF ContainsKey(locals, key) THEN locals[key] ELSE -1

\* C23: the depth the evaluator looks up for a Variable, Assignment, This or
\* Super site is the depth the resolver computed for that very site, whatever
\* other sites were resolved after it.
DepthKeptPerSite ==
    \A i \in Events("Resolve") : LookedUp(trace[i].key) = Computed(trace[i])


\* the site of the given name and line was resolved with no local scope
\* declaring the name
GlobalSite(name, line) ==
    \E i \in Events("Resolve") :
        /\ trace[i].name = name
        /\ trace[i].line = line
        /\ trace[i].declaring = 0

\* C24: a Variable or Assignment site whose name no enclosing local scope
\* declares has no entry in the depth table, and every read and assignment
\* made at such a site of the program ProgGlobal, whose globals are all
\* defined, is answered by the global frame.
GlobalSitesUseGlobalFrame ==
    program[1] = ProgGlobal[1] =>
        /\ \A i \in Events("Resolve") :
              trace[i].declaring = 0 => ~ContainsKey(locals, trace[i].key)
        /\ \A i \in Events("Read") \cup Events("Write") :
              GlobalSite(trace[i].name, trace[i].line) => trace[i].frame = GlobalEnv


-----------------------------------------------------------------------------
(* The environment's operations, read off the chain they were called on.    *)

EnvCalls(ops) == {i \in Events("Env") : trace[i].op \in ops}

\* the frame the call of entry e must operate on: depth parent links above
\* the frame it was called on, 0 when the chain is shorter
TargetFrame(e) == Ancestor(e.before, e.env, e.depth)

\* the nearest frame of the chain from id on that binds the name, 0 if none
RECURSIVE Nearest(_, _, _)
Nearest(fr, id, name) ==
    IF id = 0 THEN 0
    ELSE IF ContainsKey(fr[id].values, name) THEN id
    ELSE Nearest(fr, fr[id].parent, name)

\* C25: get_at and set_at skip exactly depth parent links and operate on that
\* frame only: when they succeed, the binding read or written is the one of
\* that frame, and a write leaves every other binding as it was.
AtOperatesOnOneFrame ==
    \A i \in EnvCalls({"get_at", "set_at"}) :
        LET e == trace[i]
        IN  e.ok =>
              /\ TargetFrame(e) # 0
              /\ e.frame = TargetFrame(e)
              /\ ContainsKey(e.before[TargetFrame(e)].values, e.name)
              /\ e.op = "get_at" => e.value = e.before[TargetFrame(e)].values[e.name]
              /\ e.op = "set_at" =>
                    e.after = [e.before EXCEPT ![TargetFrame(e)].values[e.name] = e.value]


\* C26: set changes exactly one binding, the one of the nearest frame of the
\* chain that binds the name, and get reads that binding; when no frame up
\* to the outermost binds the name both fail with the undefined-variable
\* error at the token's line and every frame is left as it was.
AssignNearestBinding ==
    \A i \in EnvCalls({"get", "set"}) :
        LET e == trace[i]
            n == Nearest(e.before, e.env, e.name)
        IN  IF n # 0
            THEN /\ e.ok
                 /\ e.frame = n
                 /\ e.op = "get" => /\ e.value = e.before[n].values[e.name]
                                    /\ e.after = e.before
                 /\ e.op = "set" =>
                       e.after = [e.before EXCEPT ![n].values[e.name] = e.value]
            ELSE /\ ~e.ok
                 /\ e.after = e.before
                 /\ e.err_line = e.line
                 /\ e.message = (IF e.op = "get"
                                 THEN "Failed to get undefined variable '"
                                 ELSE "Failed to set undefined variable: '")
                                \o e.name \o "'."

\* on a chain of three frames none of which binds a: a set of a fails and
\* leaves the chain as it was, a set of b changes the outermost frame
AssignNearestBindingWitness ==
    /\ Len(frames) = 3
    /\ \E i, j \in EnvCalls({"set"}) :
          /\ trace[i].name = "a" /\ ~trace[i].ok
          /\ trace[i].after = trace[i].before
          /\ trace[j].name = "b" /\ trace[j].ok
          /\ trace[j].env = 3 /\ trace[j].frame = 1
          /\ frames[1].values["b"] = trace[j].value


\* C27: in a property assignment the value is evaluated before the
\* instance's field map is taken for writing: in the programs of ProgSet,
\* whose values read properties of and call methods on the instance that is
\* assigned to, every assignment completes and stores the value, and the
\* run does not end in a conflicting access to the instance.
ValueBeforeFieldMap ==
    program[1] = ProgSet[1] =>
        /\ \A i \in Events("Set") :
              /\ trace[i].tag = "Ok"
              /\ ContainsKey(trace[i].fields, trace[i].name)
              /\ trace[i].fields[trace[i].name] = trace[i].v
        /\ outcome.tag # "Panic"


\* the value the last completed assignment to the field before history
\* entry g stored
LastSet(g) ==
    LET sets == {i \in Events("Set") :
                    /\ i < g
                    /\ trace[i].tag = "Ok"
                    /\ trace[i].id = trace[g].id
                    /\ trace[i].name = trace[g].name}
    IN  trace[Last(sets)].v

\* C28: a completed property assignment changes the field map of its
\* instance in the assigned field only: every other instance, the instance's
\* class with its method tables, and every frame (where the classes live)
\* are as before; a Get that reads the instance (one that is not refused
\* because the instance is borrowed by a pending assignment) yields the
\* stored value of an assigned name also when the class declares a method of
\* that name, and on an instance without such a field still yields the method.
SetTouchesOneFieldMap ==
    /\ \A i \in Events("Set") :
          LET e == trace[i]
          IN  e.tag = "Ok" =>
                /\ Len(e.after) = Len(e.before)
                /\ \A k \in 1..Len(e.before) : k # e.id => e.after[k] = e.before[k]
                /\ e.after[e.id].base = e.before[e.id].base
                /\ DOMAIN e.after[e.id].fields
                      = DOMAIN e.before[e.id].fields \cup {e.name}
                /\ \A f \in DOMAIN e.before[e.id].fields :
                      f # e.name => e.after[e.id].fields[f] = e.before[e.id].fields[f]
                /\ e.after[e.id].fields[e.name] = e.v
                /\ e.frames_after = e.frames_before
    /\ \A g \in Events("Get") :
          trace[g].tag # "Panic" =>
          /\ trace[g].is_field => trace[g].tag = "Ok" /\ trace[g].v = LastSet(g)
          /\ (~trace[g].is_field
              /\ ContainsKey(instances[trace[g].id].base.methods, trace[g].name))
                => trace[g].tag = "Ok" /\ trace[g].v.kind = "Callable"

\* o.seven = 5 where the class of o and p declares seven(): o.seven is 5, and
\* p.seven is still the method
SetTouchesOneFieldMapWitness ==
    /\ phase = "done"
    /\ outcome.tag = "Ok"
    /\ out = <<"5", "<fn seven>">>
    /\ \E i \in Events("Set") : \E g, h \in Events("Get") :
          /\ i < g /\ g < h
          /\ trace[i].name = "seven" /\ trace[i].tag = "Ok"
          /\ trace[g].id = trace[i].id /\ trace[g].is_field
          /\ trace[h].id # trace[i].id /\ trace[h].name = "seven"
          /\ trace[h].v.kind = "Callable"
          /\ instances[trace[h].id].base = instances[trace[i].id].base


\* C29: Parser::parse ends with a statement list or a list of parser errors:
\* every iteration of its loop ends with a declaration or a parser error and
\* leaves the cursor beyond the token it started on, and the run as a whole
\* ends with Ok or ParserErrors, also when the input ends where an operand
\* is expected.
ParseTerminates ==
    phase \in {"parse", "done"} /\ Len(tokens) > 0 =>
        /\ \A i \in Events("Decl") :
              /\ trace[i].tag \in {"Ok", "ParserErrors"}
              /\ trace[i].end > trace[i].start
              /\ trace[i].synced >= trace[i].end
        /\ phase = "done" => outcome.tag \in {"Ok", "ParserErrors"}


\* the bindings a call makes: every parameter name, each with the argument of
\* its last occurrence in the parameter list
BoundAs(e, values) ==
    /\ DOMAIN values = {e.params[j].lexeme : j \in 1..Len(e.params)}
    /\ \A j \in 1..Len(e.params) :
          (\A k \in (j + 1)..Len(e.params) : e.params[k].lexeme # e.params[j].lexeme)
              => values[e.params[j].lexeme] = e.arguments[j]

====
